---- MODULE Spec2Model ----
(***************************************************************************)
(* Token authentication of the wedding planner service.                    *)
(*                                                                         *)
(* internal/auth/auth.go builds and verifies HS256 tokens with             *)
(* github.com/golang-jwt/jwt/v5; internal/server/middlewares/auth.go is    *)
(* the gin middleware that guards the protected routes.                    *)
(*                                                                         *)
(* Time is counted in ticks, TicksPerSecond of them to a second, so that   *)
(* the truncation of jwt.NewNumericDate to whole seconds is visible.       *)
(* A header value is a sequence of elements: [ch |-> c] is the character   *)
(* c, [jwt |-> t] is the compact serialisation of the token t (its         *)
(* characters are never looked at one by one by the code under study, so   *)
(* it is kept as one element; it contains no white space).                 *)
(***************************************************************************)
EXTENDS Integers, Sequences, FiniteSets, TLC

(***************************************************************************)
(* Bounds of the model.                                                    *)
(***************************************************************************)
TicksPerSecond == 2
MaxClockSteps == 2

(***************************************************************************)
(* Time.                                                                   *)
(***************************************************************************)
Second == TicksPerSecond
Hour == 3600 * Second
TokenExpirationTime == 24 * Hour
StartTime == 100 * TokenExpirationTime
NoDate == 0 - 1
ClockSteps == {1, Hour, TokenExpirationTime}

\* NewNumericDate rounding up to the next whole second
NewNumericDate_RoundUp(t) == t + ((Second - (t % Second)) % Second)

\* jwt.NewNumericDate: t.Truncate(jwt.TimePrecision), TimePrecision = 1s
NewNumericDate(t) == t - (t % Second)

(***************************************************************************)
(* Strings.                                                                *)
(***************************************************************************)
Ch(c) == [ch |-> c]
Str(s) == [i \in 1..Len(s) |-> Ch(s[i])]
Blob(t) == [jwt |-> t]
IsSpace(e) == "ch" \in DOMAIN e /\ e.ch \in {" ", "\t", "\n", "\r"}

RECURSIVE TrimLeft(_)
TrimLeft(s) ==
    IF s # <<>> /\ IsSpace(Head(s)) THEN TrimLeft(Tail(s)) ELSE s

RECURSIVE TrimRight(_)
TrimRight(s) ==
    IF s # <<>> /\ IsSpace(s[Len(s)])
    THEN TrimRight(SubSeq(s, 1, Len(s) - 1)) ELSE s

\* strings.TrimSpace
TrimSpace(s) == TrimRight(TrimLeft(s))

\* strings.HasPrefix
HasPrefix(s, p) == Len(s) >= Len(p) /\ SubSeq(s, 1, Len(p)) = p

Digits == <<"0", "1", "2", "3", "4", "5", "6", "7", "8", "9">>

\* fmt.Sprintf("%d", n) for an unsigned n
RECURSIVE Sprintf_d(_)
Sprintf_d(n) ==
    IF n < 10 THEN <<Digits[n + 1]>>
    ELSE Sprintf_d(n \div 10) \o <<Digits[(n % 10) + 1]>>

(***************************************************************************)
(* Errors: the sentinels an error wraps (errors.Is) and its message.       *)
(***************************************************************************)
NoError == [is |-> {}, msg |-> ""]
Sentinel(name, text) == [is |-> {name}, msg |-> text]

ErrTokenMissing == Sentinel("ErrTokenMissing", "authorization token is missing")
ErrTokenInvalid == Sentinel("ErrTokenInvalid", "token is invalid or malformed")
ErrTokenExpired == Sentinel("ErrTokenExpired", "token has expired")
ErrTokenNotValidYet == Sentinel("ErrTokenNotValidYet", "token is not valid yet")
ErrInvalidSigningMethod ==
    Sentinel("ErrInvalidSigningMethod", "invalid token signing method")

jwtErrTokenMalformed == Sentinel("jwt.ErrTokenMalformed", "token is malformed")
jwtErrTokenUnverifiable ==
    Sentinel("jwt.ErrTokenUnverifiable", "token is unverifiable")
jwtErrTokenSignatureInvalid ==
    Sentinel("jwt.ErrTokenSignatureInvalid", "token signature is invalid")
jwtErrSignatureInvalid ==
    Sentinel("jwt.ErrSignatureInvalid", "signature is invalid")
jwtErrTokenInvalidClaims ==
    Sentinel("jwt.ErrTokenInvalidClaims", "token has invalid claims")
jwtErrTokenExpired == Sentinel("jwt.ErrTokenExpired", "token is expired")
jwtErrTokenNotValidYet ==
    Sentinel("jwt.ErrTokenNotValidYet", "token is not valid yet")

\* fmt.Errorf("%w: %v", w, v): only w stays in the chain
Errorf_w_v(w, text) == [is |-> w.is, msg |-> w.msg \o ": " \o text]

\* jwt newError(message, err, more): every error given stays in the chain
newError(message, err, more) ==
    [is  |-> err.is \cup more.is,
     msg |-> err.msg
             \o (IF message = "" THEN "" ELSE ": " \o message)
             \o (IF more = NoError THEN "" ELSE ": " \o more.msg)]

\* jwt joinErrors of the claim validator
joinErrors(a, b) ==
    IF a = NoError THEN b
    ELSE IF b = NoError THEN a
    ELSE [is |-> a.is \cup b.is, msg |-> a.msg \o ", " \o b.msg]

(***************************************************************************)
(* Tokens.  A token carries the algorithm of its header, its claims, its   *)
(* signature and whether its three segments decode at all.  A signature    *)
(* is the MAC of the signing text (header and claims) under a key.         *)
(***************************************************************************)
HMACMethods == {"HS256", "HS384", "HS512"}
RegisteredMethods == HMACMethods \cup {"RS256", "none"}

SigningText(alg, claims) == [alg |-> alg, claims |-> claims]
Sign(alg, text, key) == [alg |-> alg, key |-> key, text |-> text]

ZeroClaims ==
    [UserID |-> 0, Email |-> "", Issuer |-> "", Subject |-> <<>>,
     ExpiresAt |-> NoDate, IssuedAt |-> NoDate, NotBefore |-> NoDate]

\* jwt.NewWithClaims(method, claims) followed by SignedString(key)
SignedString(alg, claims, key) ==
    [wellFormed |-> TRUE, alg |-> alg, claims |-> claims,
     sig |-> Sign(alg, SigningText(alg, claims), key)]

\* CreateToken with the lifetime of a refresh token (7 days)
CreateToken_RefreshLifetime(userID, email, secret, t) ==
    LET expirationTime == t + 7 * TokenExpirationTime
        claims == [UserID    |-> userID,
                   Email     |-> email,
                   ExpiresAt |-> NewNumericDate(expirationTime),
                   IssuedAt  |-> NewNumericDate(t),
                   NotBefore |-> NewNumericDate(t),
                   Issuer    |-> "wedding_planner_service",
                   Subject   |-> Sprintf_d(userID)]
    IN  SignedString("HS256", claims, secret)

\* CreateToken with a not-before one second after the issue
CreateToken_LateNotBefore(userID, email, secret, t) ==
    LET expirationTime == t + TokenExpirationTime
        claims == [UserID    |-> userID,
                   Email     |-> email,
                   ExpiresAt |-> NewNumericDate(expirationTime),
                   IssuedAt  |-> NewNumericDate(t),
                   NotBefore |-> NewNumericDate(t) + Second,
                   Issuer    |-> "wedding_planner_service",
                   Subject   |-> Sprintf_d(userID)]
    IN  SignedString("HS256", claims, secret)

CreateToken(userID, email, secret, t) ==
    LET expirationTime == t + TokenExpirationTime
        claims == [UserID    |-> userID,
                   Email     |-> email,
                   ExpiresAt |-> NewNumericDate(expirationTime),
                   IssuedAt  |-> NewNumericDate(t),
                   NotBefore |-> NewNumericDate(t),
                   Issuer    |-> "wedding_planner_service",
                   Subject   |-> Sprintf_d(userID)]
    IN  SignedString("HS256", claims, secret)

\* ExtractToken without strings.TrimSpace
ExtractToken_NoTrim(authHeader) ==
    IF Len(authHeader) > 7 /\ HasPrefix(authHeader, Str(<<"B", "e", "a", "r", "e", "r", " ">>))
    THEN SubSeq(authHeader, 8, Len(authHeader))
    ELSE <<>>

ExtractToken(authHeader) ==
    IF Len(authHeader) > 7 /\ HasPrefix(authHeader, Str(<<"B", "e", "a", "r", "e", "r", " ">>))
    THEN TrimSpace(SubSeq(authHeader, 8, Len(authHeader)))
    ELSE <<>>

returnVerificationKey(token, secret) ==
    IF token.alg \notin HMACMethods
    THEN [key |-> "", err |-> Errorf_w_v(ErrInvalidSigningMethod, token.alg)]
    ELSE [key |-> secret, err |-> NoError]

\* a validator that does not look at nbf
Validate_NoNotBefore(claims, t) ==
    IF claims.ExpiresAt = NoDate \/ t < claims.ExpiresAt
    THEN NoError ELSE jwtErrTokenExpired

\* jwt Validator.Validate with the default options: exp and nbf, no leeway
Validate(claims, t) ==
    LET e1 == IF claims.ExpiresAt = NoDate \/ t < claims.ExpiresAt
              THEN NoError ELSE jwtErrTokenExpired
        e2 == IF claims.NotBefore = NoDate \/ t >= claims.NotBefore
              THEN NoError ELSE jwtErrTokenNotValidYet
    IN  joinErrors(e1, e2)

\* jwt Parser.ParseUnverified: split in three segments, decode header and
\* claims, look the algorithm up
ParseUnverified(tokenString) ==
    IF ~(Len(tokenString) = 1 /\ "jwt" \in DOMAIN tokenString[1])
    THEN [claims |-> ZeroClaims, alg |-> "",
          err |-> newError("token contains an invalid number of segments",
                           jwtErrTokenMalformed, NoError)]
    ELSE LET tok == tokenString[1].jwt IN
         IF ~tok.wellFormed
         THEN [claims |-> ZeroClaims, alg |-> "",
               err |-> newError("could not base64 decode", jwtErrTokenMalformed, NoError)]
         ELSE IF tok.alg \notin RegisteredMethods
         THEN [claims |-> tok.claims, alg |-> tok.alg,
               err |-> newError("signing method (alg) is unavailable",
                                jwtErrTokenUnverifiable, NoError)]
         ELSE [claims |-> tok.claims, alg |-> tok.alg, err |-> NoError]

\* a parse that does not verify the signature (jwt.ParseUnverified)
ParseWithClaims_NoSignatureCheck(tokenString, secret, t) ==
    LET u == ParseUnverified(tokenString) IN
    IF u.err # NoError
    THEN [Valid |-> FALSE, claims |-> u.claims, err |-> u.err]
    ELSE
    LET v == Validate(u.claims, t) IN
    IF v # NoError
    THEN [Valid |-> FALSE, claims |-> u.claims,
          err |-> newError("", jwtErrTokenInvalidClaims, v)]
    ELSE [Valid |-> TRUE, claims |-> u.claims, err |-> NoError]

\* jwt.ParseWithClaims(tokenString, claims, returnVerificationKey) at time t
ParseWithClaims(tokenString, secret, t) ==
    LET u == ParseUnverified(tokenString) IN
    IF u.err # NoError
    THEN [Valid |-> FALSE, claims |-> u.claims, err |-> u.err]
    ELSE
    LET k == returnVerificationKey(u, secret) IN
    IF k.err # NoError
    THEN [Valid |-> FALSE, claims |-> u.claims,
          err |-> newError("error while executing keyfunc",
                           jwtErrTokenUnverifiable, k.err)]
    ELSE IF tokenString[1].jwt.sig # Sign(u.alg, SigningText(u.alg, u.claims), k.key)
    THEN [Valid |-> FALSE, claims |-> u.claims,
          err |-> newError("", jwtErrTokenSignatureInvalid, jwtErrSignatureInvalid)]
    ELSE
    LET v == Validate(u.claims, t) IN
    IF v # NoError
    THEN [Valid |-> FALSE, claims |-> u.claims,
          err |-> newError("", jwtErrTokenInvalidClaims, v)]
    ELSE [Valid |-> TRUE, claims |-> u.claims, err |-> NoError]

\* VerifyToken handing the library's error on as it is
VerifyToken_RawError(authHeader, secret, t) ==
    LET tokenString == ExtractToken(authHeader) IN
    IF tokenString = <<>> THEN ErrTokenMissing
    ELSE ParseWithClaims(tokenString, secret, t).err

VerifyToken(authHeader, secret, t) ==
    LET tokenString == ExtractToken(authHeader) IN
    IF tokenString = <<>> THEN ErrTokenMissing
    ELSE
    LET p == ParseWithClaims(tokenString, secret, t) IN
    IF p.err # NoError
    THEN IF "jwt.ErrTokenExpired" \in p.err.is THEN ErrTokenExpired
         ELSE IF "jwt.ErrTokenNotValidYet" \in p.err.is THEN ErrTokenNotValidYet
         ELSE Errorf_w_v(ErrTokenInvalid, p.err.msg)
    ELSE IF ~p.Valid THEN ErrTokenInvalid
    ELSE NoError

\* ExtractUserID accepting HS256 only (jwt.WithValidMethods in one parse)
ExtractUserID_OnlyHS256(authHeader, secret, t) ==
    LET tokenString == ExtractToken(authHeader) IN
    IF tokenString = <<>> THEN [userID |-> 0, err |-> ErrTokenMissing]
    ELSE
    LET p == ParseWithClaims(tokenString, secret, t) IN
    IF p.err # NoError \/ ~p.Valid \/ tokenString[1].jwt.alg # "HS256"
    THEN [userID |-> 0, err |-> ErrTokenInvalid]
    ELSE [userID |-> p.claims.UserID, err |-> NoError]

ExtractUserID(authHeader, secret, t) ==
    LET tokenString == ExtractToken(authHeader) IN
    IF tokenString = <<>> THEN [userID |-> 0, err |-> ErrTokenMissing]
    ELSE
    LET p == ParseWithClaims(tokenString, secret, t) IN
    IF p.err # NoError \/ ~p.Valid
    THEN [userID |-> 0, err |-> ErrTokenInvalid]
    ELSE [userID |-> p.claims.UserID, err |-> NoError]

ExtractTokenMetadata(authHeader, secret, t) ==
    LET tokenString == ExtractToken(authHeader) IN
    IF tokenString = <<>> THEN [claims |-> ZeroClaims, err |-> ErrTokenMissing]
    ELSE
    LET p == ParseWithClaims(tokenString, secret, t) IN
    IF p.err # NoError \/ ~p.Valid
    THEN [claims |-> ZeroClaims, err |-> ErrTokenInvalid]
    ELSE [claims |-> p.claims, err |-> NoError]

(***************************************************************************)
(* Inputs of the model: the principals that log in, and the tokens and     *)
(* header values a client may send.                                        *)
(***************************************************************************)
UserIDs == {7, 42}
Emails == {"a@b.com", "c@d.org"}
ProcessSecret == "process-secret"
OtherSecret == "other-secret"
Algs == {"HS256", "HS512", "RS256", "none"}
ForgedExpiresAt == {StartTime - Hour, StartTime + 2 * Hour}
ForgedNotBefore == {StartTime - Hour, StartTime + Hour + 1}

ForgedClaims(userID, exp, nbf) ==
    [UserID |-> userID, Email |-> "eve@x.io", Issuer |-> "wedding_planner_service",
     Subject |-> Sprintf_d(userID), ExpiresAt |-> exp,
     IssuedAt |-> StartTime - Hour, NotBefore |-> nbf]

\* a token made outside CreateToken: any algorithm, any dates, signed with
\* the process secret, with another secret, or carrying the signature of
\* other claims; possibly not decodable at all
ForgedSignature(alg, exp, nbf, how) ==
    IF how = "process secret"
    THEN Sign(alg, SigningText(alg, ForgedClaims(1, exp, nbf)), ProcessSecret)
    ELSE IF how = "other secret"
    THEN Sign(alg, SigningText(alg, ForgedClaims(1, exp, nbf)), OtherSecret)
    ELSE Sign(alg, SigningText(alg, ForgedClaims(2, exp, nbf)), ProcessSecret)

ForgedTokens ==
    { [wellFormed |-> wf, alg |-> alg, claims |-> ForgedClaims(1, exp, nbf),
       sig |-> ForgedSignature(alg, exp, nbf, how)] :
        wf \in BOOLEAN, alg \in Algs, exp \in ForgedExpiresAt,
        nbf \in ForgedNotBefore,
        how \in {"process secret", "other secret", "other claims"} }

Bearer_ == Str(<<"B", "e", "a", "r", "e", "r", " ">>)
abc123 == Str(<<"a", "b", "c", "1", "2", "3">>)
BearerOf(tok) == Bearer_ \o <<Blob(tok)>>
Schemes ==
    { Bearer_,
      Str(<<"b", "e", "a", "r", "e", "r", " ">>),
      Str(<<"B", "a", "s", "i", "c", " ">>),
      Str(<<"B", "e", "a", "r", "e", "r">>),
      <<>> }
Paddings == { <<>>, Str(<<" ", "\t">>) }

\* the values of the Authorization header; <<>> is the missing header
HeaderValues(tokens) ==
    { p \o r : p \in Schemes, r \in Paddings \cup {abc123} }
    \cup { Bearer_ \o <<Blob(t)>> : t \in ForgedTokens }
    \cup { p \o l \o <<Blob(t)>> \o r :
             p \in Schemes, l \in Paddings, r \in Paddings, t \in tokens }

(***************************************************************************)
(* State.                                                                  *)
(***************************************************************************)
VARIABLES
    now,            \* time.Now(), in ticks
    clockSteps,     \* how often the clock has advanced
    JWT_SECRET,     \* configs.JWT_SECRET
    held,           \* the token of the client's last login, with its inputs
    Authorization,  \* the Authorization header of the request in the pipeline
    pc,             \* where the request is in the handler chain
    Keys,           \* gin.Context.Keys
    aborted,        \* gin.Context.IsAborted()
    status,         \* the status written, 0 when none
    body,           \* the error or message written
    verifyErr,      \* what VerifyToken returned for this request
    setCount,       \* how often c.Set("user_id", ..) ran for this request
    handlerRan,     \* whether the route's handler ran for this request
    handlerUserID,  \* the user the handler acted for
    verifiedAt      \* when VerifyToken ran for this request, NoDate before

\* the rest of the service: the router, the user table, the process
VARIABLES
    route,          \* the route of the request in the pipeline
    users,          \* the rows of the users table
    nextID,         \* the AUTO_INCREMENT counter of the users table
    resp,           \* the response of the last public handler
    ENV,            \* configs.ENV
    index,          \* gin.Context.index: the handler of the chain to run next
    inflight,       \* the validated users of registrations about to reach repo.Create
    proc,           \* where the process is between its start and its exit
    environ,        \* the environment variables of the process
    conc,           \* the verifications in progress, one per request goroutine
    hasher,         \* a password, its hash and a candidate checked against it
    weddings,       \* the rows of the weddings table
    nextWID,        \* the AUTO_INCREMENT counter of the weddings table
    wresp,          \* the response of the last wedding handler
    db,             \* ConnectDB: its attempts, waits and outcome
    srv,            \* RunServer: the HTTP server, the database pool, the return
    upd             \* the UpdateProfile requests in progress

boot == <<proc, environ, conc>>

aux == <<hasher, weddings, nextWID, wresp, db, srv, upd>>

ext == <<route, users, nextID, resp, ENV, index, inflight, boot, aux>>

vars == <<now, clockSteps, JWT_SECRET, held, Authorization, pc, Keys, aborted,
          status, body, verifyErr, setCount, handlerRan, handlerUserID,
          verifiedAt, ext>>

reqVars == <<Authorization, pc, Keys, aborted, status, body, verifyErr,
             setCount, handlerRan, handlerUserID, verifiedAt>>

NoRow == [ID |-> 0, Name |-> <<>>, Email |-> <<>>, PartnerName |-> <<>>]
NoReq == [bound |-> FALSE, dbErr |-> FALSE, email |-> <<>>, password |-> <<>>]
NoResp == [handler |-> "", status |-> 0, error |-> "", token |-> {},
           expires_in |-> 0, user |-> NoRow, delayed |-> 0, req |-> NoReq]

NoRoute == [method |-> "", path |-> <<>>, chain |-> <<>>]

\* the request goroutines that verify at the same time
Workers == {1, 2}
IdleWorker == [pc |-> "idle", header |-> <<>>, key |-> "", err |-> NoError]
NoConc == [w \in Workers |-> IdleWorker]

\* DATABASE_URL in the parts LoadEnv looks for
DSN == <<"user:pass", "@", "tcp(", "host:3306)/db">>

\* the environment of a process that came to serve with ENV = env
ServingEnviron(env) ==
    [JWT_SECRET |-> ProcessSecret, DATABASE_URL |-> DSN,
     ENV |-> IF env = "development" THEN "" ELSE env]

\* the hasher, the weddings table, ConnectDB, RunServer and the profile
\* updates at rest
AtRest == [pc |-> "idle"]

AuxIdle ==
    /\ hasher = AtRest
    /\ weddings = {}
    /\ nextWID = 1
    /\ wresp = AtRest
    /\ db = AtRest
    /\ srv = AtRest
    /\ upd = AtRest

\* the variables outside the token gate at rest
ExtIdle ==
    /\ route = NoRoute
    /\ users = {}
    /\ nextID = 1
    /\ resp = NoResp
    /\ ENV = "development"
    /\ index = 0
    /\ inflight = {}
    /\ proc = "serving"
    /\ environ = ServingEnviron("development")
    /\ conc = NoConc
    /\ AuxIdle

NoKeys == [k \in {} |-> 0]
NoUser == 0 - 1

Init ==
    /\ now = StartTime + 1
    /\ clockSteps = 0
    /\ JWT_SECRET = ProcessSecret
    /\ held = {}
    /\ Authorization = <<>>
    /\ pc = "idle"
    /\ Keys = NoKeys
    /\ aborted = FALSE
    /\ status = 0
    /\ body = ""
    /\ verifyErr = NoError
    /\ setCount = 0
    /\ handlerRan = FALSE
    /\ handlerUserID = NoUser
    /\ verifiedAt = NoDate
    /\ ExtIdle

\* the clock advances, at any point of a request
Tick(d) ==
    /\ clockSteps < MaxClockSteps
    /\ now' = now + d
    /\ clockSteps' = clockSteps + 1
    /\ UNCHANGED <<JWT_SECRET, held, reqVars, ext>>

\* a login hands the client a token (CreateToken)
Issue(userID, email) ==
    /\ pc = "idle"
    /\ held' = {[tok |-> CreateToken(userID, email, JWT_SECRET, now),
                 at |-> now, userID |-> userID, email |-> email]}
    /\ UNCHANGED <<now, clockSteps, JWT_SECRET, reqVars, ext>>

\* a request for a protected route enters the handler chain
NewRequest(h) ==
    /\ pc = "idle"
    /\ Authorization' = h
    /\ pc' = "verify"
    /\ Keys' = NoKeys
    /\ aborted' = FALSE
    /\ status' = 0
    /\ body' = ""
    /\ verifyErr' = NoError
    /\ setCount' = 0
    /\ handlerRan' = FALSE
    /\ handlerUserID' = NoUser
    /\ verifiedAt' = NoDate
    /\ UNCHANGED <<now, clockSteps, JWT_SECRET, held, ext>>

\* AuthMiddleware answering 401 without c.Abort()
AuthMiddlewareVerify_NoAbort ==
    /\ pc = "verify"
    /\ LET err == VerifyToken(Authorization, JWT_SECRET, now) IN
       /\ verifyErr' = err
       /\ verifiedAt' = now
       /\ IF err # NoError
          THEN /\ status' = 401
               /\ body' = err.msg
               /\ pc' = "chain"
          ELSE /\ pc' = "extract"
               /\ UNCHANGED <<status, body>>
    /\ UNCHANGED <<ext, now, clockSteps, JWT_SECRET, held, Authorization, Keys,
                   aborted, setCount, handlerRan, handlerUserID>>

\* AuthMiddleware, first half: VerifyToken
AuthMiddlewareVerify ==
    /\ pc = "verify"
    /\ LET err == VerifyToken(Authorization, JWT_SECRET, now) IN
       /\ verifyErr' = err
       /\ verifiedAt' = now
       /\ IF err # NoError
          THEN /\ status' = 401
               /\ body' = err.msg
               /\ aborted' = TRUE
               /\ pc' = "chain"
          ELSE /\ pc' = "extract"
               /\ UNCHANGED <<status, body, aborted>>
    /\ UNCHANGED <<ext, now, clockSteps, JWT_SECRET, held, Authorization, Keys,
                   setCount, handlerRan, handlerUserID>>

\* AuthMiddleware calling c.Next() without c.Set("user_id", userID)
\* AuthMiddleware turning away the token of a principal that has no live row
AuthMiddlewareExtract_Revoking ==
    /\ pc = "extract"
    /\ LET r == ExtractUserID(Authorization, JWT_SECRET, now) IN
       IF r.err # NoError \/ \A u \in users : u.ID = r.userID => u.Deleted
       THEN /\ status' = 401
            /\ body' = "failed to extract user information"
            /\ aborted' = TRUE
            /\ UNCHANGED <<Keys, setCount>>
       ELSE /\ Keys' = [k \in DOMAIN Keys \cup {"user_id"} |->
                           IF k = "user_id" THEN r.userID ELSE Keys[k]]
            /\ setCount' = setCount + 1
            /\ UNCHANGED <<status, body, aborted>>
    /\ pc' = "chain"
    /\ UNCHANGED <<ext, verifiedAt, now, clockSteps, JWT_SECRET, held, Authorization, verifyErr,
                   handlerRan, handlerUserID>>

AuthMiddlewareExtract_NoSet ==
    /\ pc = "extract"
    /\ LET r == ExtractUserID(Authorization, JWT_SECRET, now) IN
       IF r.err # NoError
       THEN /\ status' = 401
            /\ body' = "failed to extract user information"
            /\ aborted' = TRUE
       ELSE UNCHANGED <<status, body, aborted>>
    /\ pc' = "chain"
    /\ UNCHANGED <<ext, verifiedAt, now, clockSteps, JWT_SECRET, held, Authorization, verifyErr,
                   Keys, setCount, handlerRan, handlerUserID>>

\* AuthMiddleware, second half: ExtractUserID, c.Set, c.Next
AuthMiddlewareExtract ==
    /\ pc = "extract"
    /\ LET r == ExtractUserID(Authorization, JWT_SECRET, now) IN
       IF r.err # NoError
       THEN /\ status' = 401
            /\ body' = "failed to extract user information"
            /\ aborted' = TRUE
            /\ UNCHANGED <<Keys, setCount>>
       ELSE /\ Keys' = [k \in DOMAIN Keys \cup {"user_id"} |->
                           IF k = "user_id" THEN r.userID ELSE Keys[k]]
            /\ setCount' = setCount + 1
            /\ UNCHANGED <<status, body, aborted>>
    /\ pc' = "chain"
    /\ UNCHANGED <<ext, verifiedAt, now, clockSteps, JWT_SECRET, held, Authorization, verifyErr,
                   handlerRan, handlerUserID>>

\* the handler of a protected route (GetProfile): it runs unless the chain
\* was aborted; found is the outcome of repo.FindByID
GetProfile(found) ==
    /\ pc = "chain"
    /\ ~aborted
    /\ handlerRan' = TRUE
    /\ IF "user_id" \notin DOMAIN Keys
       THEN /\ status' = 401
            /\ body' = "authentication required"
            /\ UNCHANGED handlerUserID
       ELSE /\ handlerUserID' = Keys["user_id"]
            /\ status' = (IF found = "found" THEN 200
                          ELSE IF found = "notfound" THEN 404 ELSE 500)
            /\ body' = (IF found = "found" THEN "profile"
                        ELSE IF found = "notfound" THEN "user not found"
                        ELSE "unable to fetch user profile")
    /\ pc' = "done"
    /\ UNCHANGED <<ext, verifiedAt, now, clockSteps, JWT_SECRET, held, Authorization, Keys,
                   aborted, verifyErr, setCount>>

\* an aborted chain runs no further handler
ChainAborted ==
    /\ pc = "chain"
    /\ aborted
    /\ pc' = "done"
    /\ UNCHANGED <<ext, verifiedAt, now, clockSteps, JWT_SECRET, held, Authorization, Keys,
                   aborted, status, body, verifyErr, setCount, handlerRan,
                   handlerUserID>>

\* the response is written out and the context goes back to the pool
\* (gin.Context.reset)
Respond ==
    /\ pc = "done"
    /\ pc' = "idle"
    /\ Authorization' = <<>>
    /\ Keys' = NoKeys
    /\ aborted' = FALSE
    /\ status' = 0
    /\ body' = ""
    /\ verifyErr' = NoError
    /\ setCount' = 0
    /\ handlerRan' = FALSE
    /\ handlerUserID' = NoUser
    /\ verifiedAt' = NoDate
    /\ UNCHANGED <<now, clockSteps, JWT_SECRET, held, ext>>

Next ==
    \/ \E d \in ClockSteps : Tick(d)
    \/ \E u \in UserIDs, e \in Emails : Issue(u, e)
    \/ \E h \in HeaderValues({x.tok : x \in held}) : NewRequest(h)
    \/ AuthMiddlewareVerify
    \/ AuthMiddlewareExtract
    \/ \E found \in {"found", "notfound", "error"} : GetProfile(found)
    \/ ChainAborted
    \/ Respond

Spec == Init /\ [][Next]_vars

(***************************************************************************)
(* The router.  ConfigRoutes is a list of statements on router groups; a   *)
(* group takes over the handlers of its parent when it is created, Use     *)
(* appends to the handlers of the group, and a route gets the handlers     *)
(* its group has when the route is registered, followed by its own.        *)
(***************************************************************************)
Use(g, mw) == [op |-> "Use", group |-> g, mw |-> mw]
Group(g, parent, path, mws) ==
    [op |-> "Group", group |-> g, parent |-> parent, path |-> path, mws |-> mws]
Handle(g, method, path, handler) ==
    [op |-> "Handle", group |-> g, method |-> method, path |-> path, handler |-> handler]

\* the same with user.Use after the private routes
UserStatements_UseLast ==
    << Group("user", "api", <<"user">>, <<>>),
       Handle("user", "POST", <<"register">>, "RegisterUser"),
       Handle("user", "POST", <<"login">>, "Login"),
       Handle("user", "GET", <<"profile">>, "GetProfile"),
       Handle("user", "PATCH", <<"update">>, "UpdateProfile"),
       Handle("user", "DELETE", <<"delete">>, "DeleteUser"),
       Handle("user", "POST", <<"logout">>, "nil"),
       Use("user", "AuthMiddleware") >>

UserStatements ==
    << Group("user", "api", <<"user">>, <<>>),
       Handle("user", "POST", <<"register">>, "RegisterUser"),
       Handle("user", "POST", <<"login">>, "Login"),
       Use("user", "AuthMiddleware"),
       Handle("user", "GET", <<"profile">>, "GetProfile"),
       Handle("user", "PATCH", <<"update">>, "UpdateProfile"),
       Handle("user", "DELETE", <<"delete">>, "DeleteUser"),
       Handle("user", "POST", <<"logout">>, "nil") >>

WeddingStatements ==
    << Group("weddings", "api", <<"weddings">>, <<"AuthMiddleware">>),
       Handle("weddings", "POST", <<>>, "CreateWedding"),
       Handle("weddings", "GET", <<>>, "GetWeddings"),
       Handle("weddings", "GET", <<":id">>, "GetWedding"),
       Handle("weddings", "PUT", <<":id">>, "UpdateWedding"),
       Handle("weddings", "DELETE", <<":id">>, "DeleteWedding"),
       Group("wedding", "weddings", <<":id">>, <<>>),
       Handle("wedding", "GET", <<"countdown">>, "GetCountdown"),
       Group("guests", "wedding", <<"guests">>, <<>>),
       Handle("guests", "POST", <<>>, "nil"),
       Handle("guests", "POST", <<"batch">>, "nil"),
       Handle("guests", "GET", <<>>, "nil"),
       Handle("guests", "GET", <<"stats">>, "nil"),
       Handle("guests", "GET", <<":guestId">>, "nil"),
       Handle("guests", "PUT", <<":guestId">>, "nil"),
       Handle("guests", "DELETE", <<":guestId">>, "nil"),
       Group("invites", "wedding", <<"invites">>, <<>>),
       Handle("invites", "POST", <<>>, "nil"),
       Handle("invites", "GET", <<>>, "nil"),
       Handle("invites", "GET", <<":inviteId">>, "nil"),
       Handle("invites", "PUT", <<":inviteId">>, "nil"),
       Handle("invites", "POST", <<":inviteId", "send">>, "nil"),
       Handle("invites", "POST", <<":inviteId", "resend">>, "nil"),
       Group("budget", "wedding", <<"budget">>, <<>>),
       Handle("budget", "POST", <<>>, "nil"),
       Handle("budget", "GET", <<>>, "nil"),
       Handle("budget", "PUT", <<>>, "nil"),
       Handle("budget", "GET", <<"summary">>, "nil"),
       Group("expenses", "wedding", <<"expenses">>, <<>>),
       Handle("expenses", "POST", <<>>, "nil"),
       Handle("expenses", "GET", <<>>, "nil"),
       Handle("expenses", "GET", <<"by-category">>, "nil"),
       Handle("expenses", "GET", <<":expenseId">>, "nil"),
       Handle("expenses", "PUT", <<":expenseId">>, "nil"),
       Handle("expenses", "DELETE", <<":expenseId">>, "nil"),
       Handle("expenses", "PATCH", <<":expenseId", "status">>, "nil"),
       Group("fundraising", "wedding", <<"fundraising">>, <<>>),
       Handle("fundraising", "POST", <<>>, "nil"),
       Handle("fundraising", "GET", <<>>, "nil"),
       Handle("fundraising", "GET", <<"summary">>, "nil"),
       Handle("fundraising", "GET", <<"by-type">>, "nil"),
       Handle("fundraising", "GET", <<":fundraisingId">>, "nil"),
       Handle("fundraising", "PUT", <<":fundraisingId">>, "nil"),
       Handle("fundraising", "DELETE", <<":fundraisingId">>, "nil") >>

\* the statements of ConfigRoutes in the order they run
Statements(env) ==
    << Use("router", "Recovery") >>
    \o (IF env = "production" THEN << Use("router", "corsMiddleware") >> ELSE <<>>)
    \o << Group("api", "router", <<"api", "v1">>, <<>>),
          Group("health", "api", <<"health">>, <<>>),
          Handle("health", "GET", <<"status">>, "healthCheck") >>
    \o UserStatements
    \o WeddingStatements

\* the middlewares Use has added to group g between statement k and
\* statement i, in order (RouterGroup.Use appends to group.Handlers)
UsesOf(sts, g, k, i) ==
    LET sel == SelectSeq(SubSeq(sts, k + 1, i - 1),
                         LAMBDA s : s.op = "Use" /\ s.group = g)
    IN  [j \in 1..Len(sel) |-> sel[j].mw]

\* the statement before i that created group g
GroupAt(sts, g, i) ==
    CHOOSE k \in 1..(i - 1) : sts[k].op = "Group" /\ sts[k].group = g

\* group.Handlers of g when statement i runs: RouterGroup.Group copies
\* the parent's handlers of that moment (combineHandlers), later Use on
\* the parent does not reach the child
RECURSIVE HandlersAt(_, _, _)
HandlersAt(sts, g, i) ==
    IF g = "router"
    THEN UsesOf(sts, g, 0, i)
    ELSE LET k == GroupAt(sts, g, i)
         IN  HandlersAt(sts, sts[k].parent, k) \o sts[k].mws \o UsesOf(sts, g, k, i)

\* group.basePath of g (calculateAbsolutePath)
RECURSIVE BasePathAt(_, _, _)
BasePathAt(sts, g, i) ==
    IF g = "router"
    THEN <<>>
    ELSE LET k == GroupAt(sts, g, i)
         IN  BasePathAt(sts, sts[k].parent, k) \o sts[k].path

\* the routes the statements leave in the engine (RouterGroup.handle)
Run(sts) ==
    {[method |-> sts[i].method,
      path   |-> BasePathAt(sts, sts[i].group, i) \o sts[i].path,
      chain  |-> HandlersAt(sts, sts[i].group, i) \o <<sts[i].handler>>] :
        i \in {j \in 1..Len(sts) : sts[j].op = "Handle"}}

\* the routes ConfigRoutes leaves in the engine
ConfigRoutes(env) == Run(Statements(env))

\* the engine of each environment the server can start in
Environments == {"development", "production"}
Engine == [env \in Environments |-> ConfigRoutes(env)]

(***************************************************************************)
(* A request through the router: gin runs the handlers of the matched      *)
(* route one after the other (Context.Next) until the chain is aborted.    *)
(***************************************************************************)
InitRoutes ==
    /\ now = StartTime + 1
    /\ clockSteps = 0
    /\ JWT_SECRET = ProcessSecret
    /\ held = {}
    /\ Authorization = <<>>
    /\ pc = "idle"
    /\ Keys = NoKeys
    /\ aborted = FALSE
    /\ status = 0
    /\ body = ""
    /\ verifyErr = NoError
    /\ setCount = 0
    /\ handlerRan = FALSE
    /\ handlerUserID = NoUser
    /\ verifiedAt = NoDate
    /\ route = NoRoute
    /\ users = {}
    /\ nextID = 1
    /\ resp = NoResp
    /\ ENV \in Environments
    /\ index = 0
    /\ inflight = {}
    /\ proc = "serving"
    /\ environ = ServingEnviron(ENV)
    /\ conc = NoConc
    /\ AuxIdle

Middlewares == {"Recovery", "corsMiddleware", "AuthMiddleware"}

\* Engine.handleHTTPRequest: the request is matched to the route r
RouteRequest(r, h) ==
    /\ pc = "idle"
    /\ route' = r
    /\ index' = 1
    /\ Authorization' = h
    /\ pc' = "chain"
    /\ Keys' = NoKeys
    /\ aborted' = FALSE
    /\ status' = 0
    /\ body' = ""
    /\ verifyErr' = NoError
    /\ setCount' = 0
    /\ handlerRan' = FALSE
    /\ handlerUserID' = NoUser
    /\ verifiedAt' = NoDate
    /\ UNCHANGED <<aux, now, clockSteps, JWT_SECRET, held, users, nextID, resp, ENV, boot, inflight>>

\* gin.Recovery and corsMiddleware: they do their work and call c.Next()
PassMiddleware ==
    /\ pc = "chain"
    /\ ~aborted
    /\ index <= Len(route.chain)
    /\ route.chain[index] \in {"Recovery", "corsMiddleware"}
    /\ IF route.chain[index] = "corsMiddleware" /\ route.method = "OPTIONS"
       THEN /\ aborted' = TRUE
            /\ status' = 200
            /\ UNCHANGED index
       ELSE /\ index' = index + 1
            /\ UNCHANGED <<aborted, status>>
    /\ UNCHANGED <<aux, now, clockSteps, JWT_SECRET, held, Authorization, pc, Keys,
                   body, verifyErr, setCount, handlerRan, handlerUserID,
                   verifiedAt, route, users, nextID, resp, ENV, boot, inflight>>

\* the chain comes to AuthMiddleware
EnterAuthMiddleware ==
    /\ pc = "chain"
    /\ ~aborted
    /\ index <= Len(route.chain)
    /\ route.chain[index] = "AuthMiddleware"
    /\ pc' = "verify"
    /\ index' = index + 1
    /\ UNCHANGED <<aux, now, clockSteps, JWT_SECRET, held, Authorization, Keys,
                   aborted, status, body, verifyErr, setCount, handlerRan,
                   handlerUserID, verifiedAt, route, users, nextID, resp, ENV, boot, inflight>>

\* the chain comes to the handler of the route; a nil handler is skipped
\* by Context.Next or panics and is answered 500 by gin.Recovery,
\* depending on the gin version
RunHandler(nilPanics) ==
    /\ pc = "chain"
    /\ ~aborted
    /\ index <= Len(route.chain)
    /\ route.chain[index] \notin Middlewares
    /\ handlerRan' = TRUE
    /\ handlerUserID' = (IF "user_id" \in DOMAIN Keys THEN Keys["user_id"] ELSE NoUser)
    /\ status' = (IF route.chain[index] = "nil" /\ nilPanics THEN 500 ELSE 200)
    /\ body' = route.chain[index]
    /\ index' = index + 1
    /\ pc' = "done"
    /\ UNCHANGED <<aux, now, clockSteps, JWT_SECRET, held, Authorization, Keys,
                   aborted, verifyErr, setCount, verifiedAt, route, users,
                   nextID, resp, ENV, boot, inflight>>

NextRoutes ==
    \/ \E u \in UserIDs, e \in Emails : Issue(u, e)
    \/ \E r \in Engine[ENV],
          h \in {<<>>, Bearer_ \o abc123} \cup {BearerOf(x.tok) : x \in held} :
             RouteRequest(r, h)
    \/ PassMiddleware
    \/ EnterAuthMiddleware
    \/ AuthMiddlewareVerify
    \/ AuthMiddlewareExtract
    \/ \E nilPanics \in BOOLEAN : RunHandler(nilPanics)
    \/ ChainAborted
    \/ Respond

SpecRoutes == InitRoutes /\ [][NextRoutes]_vars

(***************************************************************************)
(* Users: the model, the password hasher, the repository and the          *)
(* controllers of the user routes.                                         *)
(***************************************************************************)
MaxUsers == 2
MaxInflight == 2

\* an addr-spec (local@domain) as one element of a string
Addr(a) == [addr |-> a]

UpperCase == {"A", "B", "C", "D", "E", "F", "G", "H", "I", "J", "K", "L", "M",
              "N", "O", "P", "Q", "R", "S", "T", "U", "V", "W", "X", "Y", "Z"}
LowerCase == {"a", "b", "c", "d", "e", "f", "g", "h", "i", "j", "k", "l", "m",
              "n", "o", "p", "q", "r", "s", "t", "u", "v", "w", "x", "y", "z"}
Special == {"!", "@", "#", "$", "%", "^", "&", "*", "(", ")", ",", ".", "?",
            "\"", ":", "{", "}", "|", "<", ">"}

\* regexp.MatchString of a character class
MatchClass(class, s) == \E i \in 1..Len(s) : "ch" \in DOMAIN s[i] /\ s[i].ch \in class

\* the bytes of a password bcrypt reads: 72, and GenerateFromPassword
\* refuses a longer password
bcryptMaxLen == 72

\* the zero byte bcrypt appends to the password
NUL == Ch("NUL")

\* the key of the Blowfish setup: the password and a zero byte, repeated
\* until the 18 words of the P-array are filled (blowfish.ExpandKey)
KeyStream(password) ==
    LET ckey == password \o <<NUL>>
    IN  [i \in 1..bcryptMaxLen |-> ckey[((i - 1) % Len(ckey)) + 1]]

\* security.EncryptPassword (bcrypt.GenerateFromPassword): the hash, a
\* value of its own kind made from the key, or the error
EncryptPassword(password) ==
    IF Len(password) > bcryptMaxLen
    THEN [err |-> "bcrypt: password length exceeds 72 bytes"]
    ELSE [bcrypt |-> KeyStream(password)]

\* security.CheckPassword (bcrypt.CompareHashAndPassword): TRUE when it
\* returns nil, FALSE when it returns an error
CheckPassword(hash, password) ==
    "bcrypt" \in DOMAIN hash /\ hash.bcrypt = KeyStream(password)

\* net/mail.ParseAddress: TRUE when it returns no error; it takes an
\* addr-spec, alone or in angle brackets after a display name
ParseAddress(e) ==
    \/ Len(e) = 1 /\ "addr" \in DOMAIN e[1]
    \/ /\ Len(e) >= 4
       /\ e[Len(e)] = Ch(">")
       /\ "addr" \in DOMAIN e[Len(e) - 1]
       /\ e[Len(e) - 2] = Ch("<")
       /\ \A i \in 1..(Len(e) - 3) :
             "ch" \in DOMAIN e[i] /\ e[i].ch \in UpperCase \cup LowerCase \cup {" "}
       /\ e[1] # Ch(" ")

\* User.trimSpaces
trimSpaces(u) ==
    [u EXCEPT !.Name = TrimSpace(u.Name),
              !.Email = TrimSpace(u.Email),
              !.PartnerName = TrimSpace(u.PartnerName)]

\* User.checkBlankFields: the error message, "" for nil
checkBlankFields(u) ==
    IF u.Name = <<>> THEN "name cannot be empty"
    ELSE IF u.Email = <<>> THEN "email cannot be empty"
    ELSE IF u.PartnerName = <<>> THEN "partner name cannot be empty"
    ELSE IF u.PasswordHash = <<>> THEN "password hash cannot be empty"
    ELSE ""

\* User.validateEmail
validateEmail(u) ==
    IF ParseAddress(u.Email) THEN "" ELSE "invalid email format"

\* User.validatePassword
validatePassword(u) ==
    LET pass == u.PasswordHash
    IN  IF Len(pass) < 8 THEN "password must be at least 8 characters long"
        ELSE IF ~MatchClass({Digits[i] : i \in 1..10}, pass)
             THEN "password must contain at least one number"
        ELSE IF ~MatchClass(UpperCase, pass)
             THEN "password must contain at least one uppercase letter"
        ELSE IF ~MatchClass(LowerCase, pass)
             THEN "password must contain at least one lowercase letter"
        ELSE IF ~MatchClass(Special, pass)
             THEN "password must contain at least one special character"
        ELSE ""

\* hashPasswordIfNeeded hashing the email in place of the password
hashPasswordIfNeeded_Email(u, step) ==
    [err |-> "", user |-> [u EXCEPT !.PasswordHash = EncryptPassword(u.Email)]]

\* User.hashPasswordIfNeeded: the error message ("" for nil) and the user
hashPasswordIfNeeded(u, step) ==
    IF step = "register"
    THEN LET hashed == EncryptPassword(u.PasswordHash)
         IN  IF "err" \in DOMAIN hashed
             THEN [err |-> hashed.err, user |-> u]
             ELSE [err |-> "", user |-> [u EXCEPT !.PasswordHash = hashed]]
    ELSE [err |-> "", user |-> u]

\* User.IsValid: the error message ("" for nil) and the user it leaves
IsValid(u, step) ==
    LET t == trimSpaces(u)
        e == IF checkBlankFields(t) # "" THEN checkBlankFields(t)
             ELSE IF validateEmail(t) # "" THEN validateEmail(t)
             ELSE validatePassword(t)
    IN  IF e # "" THEN [err |-> e, user |-> t] ELSE hashPasswordIfNeeded(t, step)

\* the rows of the users table FindByEmail and FindByID see (gorm leaves
\* soft-deleted rows out)
Live(table) == {r \in table : ~r.Deleted}

\* FindByEmail reading soft-deleted rows too
FindByEmail_Unscoped(table, email) == {r \in table : r.Email = email}

\* UserRepository.FindByEmail: the rows found, none when it returns an error
FindByEmail(table, email) == {r \in Live(table) : r.Email = email}

\* UserRepository.FindByID
FindByID(table, id) == {r \in Live(table) : r.ID = id}

\* the unique indexes of the table reject the row (MySQL "Duplicate entry"):
\* the primary key and the index on email, soft-deleted rows included
Duplicate(table, u) ==
    \E r \in table : r.Email = u.Email \/ (u.ID # 0 /\ r.ID = u.ID)

\* the row UserRepository.Create inserts for u
NewRow(u, auto) ==
    [ID |-> IF u.ID = 0 THEN auto ELSE u.ID, Name |-> u.Name, Email |-> u.Email,
     PasswordHash |-> u.PasswordHash, PartnerName |-> u.PartnerName,
     Deleted |-> FALSE]

\* UserRepository.Update (gorm Save of the row read before)
Update(table, row) == {IF r.ID = row.ID THEN row ELSE r : r \in table}

\* UserRepository.Delete (soft delete)
Delete(table, id) ==
    {IF r.ID = id THEN [r EXCEPT !.Deleted = TRUE] ELSE r : r \in table}

\* userResponse
userResponse(r) ==
    [ID |-> r.ID, Name |-> r.Name, Email |-> r.Email, PartnerName |-> r.PartnerName]

\* timingAttackDelay, in milliseconds
timingAttackDelay == 100

\* the passwords a client submits
Password1 == Str(<<"P", "a", "s", "s", "w", "o", "r", "d", "1", "!">>)
wrongpass == Str(<<"w", "r", "o", "n", "g", "p", "a", "s", "s">>)

\* the emails a client submits
a_b_com == <<Addr("a@b.com")>>
c_d_org == <<Addr("c@d.org")>>
RegisterEmails ==
    {a_b_com, <<Ch(" ")>> \o a_b_com,
     Str(<<"B", "o", "b", " ", "<">>) \o a_b_com \o Str(<<">">>),
     Str(<<"a", ".", "b">>)}

\* the user ShouldBindJSON leaves for RegisterUser to validate; ID is bound
\* from the body like the other fields
BoundUsers ==
    [ID : {0, 1}, Name : {Str(<<"A", "n", "n">>), Str(<<" ">>)},
     Email : RegisterEmails, PartnerName : {Str(<<"B", "o", "b">>)},
     PasswordHash : {Password1, wrongpass, <<>>}]

\* the login requests: bound is FALSE when ShouldBindJSON fails, dbErr is
\* TRUE when the database fails the lookup
LoginRequests ==
    [bound : BOOLEAN, dbErr : BOOLEAN, email : {a_b_com, c_d_org},
     password : {Password1, wrongpass}]

\* the response of a handler that fails
errorResponse(handler, code, msg, delay, req) ==
    [NoResp EXCEPT !.handler = handler, !.status = code, !.error = msg,
                   !.delayed = delay, !.req = req]

\* Login answering an unknown email with 404 and at once
LoginResponse_NotFound(table, req, secret, t) ==
    IF ~req.bound
    THEN errorResponse("Login", 422, "invalid request data", 0, req)
    ELSE LET found == IF req.dbErr THEN {} ELSE FindByEmail(table, req.email)
         IN  IF found = {}
             THEN errorResponse("Login", 404, "user not found", 0, req)
             ELSE LET user == CHOOSE r \in found : TRUE
                  IN  IF ~CheckPassword(user.PasswordHash, req.password)
                      THEN errorResponse("Login", 401, "invalid email or password",
                                         timingAttackDelay, req)
                      ELSE [NoResp EXCEPT
                               !.handler = "Login", !.status = 200,
                               !.token = {CreateToken(user.ID, user.Email, secret, t)},
                               !.expires_in = TokenExpirationTime \div Second,
                               !.user = userResponse(user), !.req = req]

\* controllers.Login: the response to a request at time t
LoginResponse(table, req, secret, t) ==
    IF ~req.bound
    THEN errorResponse("Login", 422, "invalid request data", 0, req)
    ELSE LET found == IF req.dbErr THEN {} ELSE FindByEmail(table, req.email)
         IN  IF found = {}
             THEN errorResponse("Login", 401, "invalid email or password",
                                timingAttackDelay, req)
             ELSE LET user == CHOOSE r \in found : TRUE
                  IN  IF ~CheckPassword(user.PasswordHash, req.password)
                      THEN errorResponse("Login", 401, "invalid email or password",
                                         timingAttackDelay, req)
                      ELSE [NoResp EXCEPT
                               !.handler = "Login", !.status = 200,
                               !.token = {CreateToken(user.ID, user.Email, secret, t)},
                               !.expires_in = TokenExpirationTime \div Second,
                               !.user = userResponse(user), !.req = req]

InitUsers ==
    /\ now = StartTime + 1
    /\ clockSteps = 0
    /\ JWT_SECRET = ProcessSecret
    /\ held = {}
    /\ Authorization = <<>>
    /\ pc = "idle"
    /\ Keys = NoKeys
    /\ aborted = FALSE
    /\ status = 0
    /\ body = ""
    /\ verifyErr = NoError
    /\ setCount = 0
    /\ handlerRan = FALSE
    /\ handlerUserID = NoUser
    /\ verifiedAt = NoDate
    /\ ExtIdle

\* controllers.RegisterUser up to repo.Create: binding and validation
RegisterUser(bound, u) ==
    /\ pc = "idle"
    /\ resp = NoResp
    /\ Cardinality(inflight) < MaxInflight
    /\ IF ~bound
       THEN /\ resp' = errorResponse("RegisterUser", 422, "invalid request data", 0, NoReq)
            /\ UNCHANGED inflight
       ELSE LET v == IsValid(u, "register")
            IN  IF v.err # ""
                THEN /\ resp' = errorResponse("RegisterUser", 400, v.err, 0, NoReq)
                     /\ UNCHANGED inflight
                ELSE /\ inflight' = inflight \cup {v.user}
                     /\ UNCHANGED resp
    /\ UNCHANGED <<aux, now, clockSteps, JWT_SECRET, held, reqVars, route, users,
                   nextID, ENV, boot, index>>

\* RegisterUser creating the user without asking the unique indexes
CreateUser_NoIndex(u, dbErr) ==
    /\ pc = "idle"
    /\ resp = NoResp
    /\ u \in inflight
    /\ inflight' = inflight \ {u}
    /\ Cardinality(users) < MaxUsers
    /\ users' = users \cup {NewRow(u, nextID)}
    /\ nextID' = (IF u.ID = 0 THEN nextID + 1
                   ELSE IF u.ID >= nextID THEN u.ID + 1 ELSE nextID)
    /\ resp' = [NoResp EXCEPT !.handler = "RegisterUser", !.status = 201,
                              !.user = userResponse(NewRow(u, nextID))]
    /\ UNCHANGED <<aux, now, clockSteps, JWT_SECRET, held, reqVars, route, ENV, boot, index>>

\* controllers.RegisterUser from repo.Create on: one INSERT and the answer
CreateUser(u, dbErr) ==
    /\ pc = "idle"
    /\ resp = NoResp
    /\ u \in inflight
    /\ inflight' = inflight \ {u}
    /\ IF Duplicate(users, u)
       THEN /\ resp' = errorResponse("RegisterUser", 409,
                           "unable to register user, please check your data", 0, NoReq)
            /\ UNCHANGED <<users, nextID>>
       ELSE IF dbErr
       THEN /\ resp' = errorResponse("RegisterUser", 500,
                           "unable to register user at this time", 0, NoReq)
            /\ UNCHANGED <<users, nextID>>
       ELSE /\ Cardinality(users) < MaxUsers
            /\ users' = users \cup {NewRow(u, nextID)}
            /\ nextID' = (IF u.ID = 0 THEN nextID + 1
                   ELSE IF u.ID >= nextID THEN u.ID + 1 ELSE nextID)
            /\ resp' = [NoResp EXCEPT !.handler = "RegisterUser", !.status = 201,
                                      !.user = userResponse(NewRow(u, nextID))]
    /\ UNCHANGED <<aux, now, clockSteps, JWT_SECRET, held, reqVars, route, ENV, boot, index>>

\* Login answering without a token
Login_NoToken(req) ==
    /\ pc = "idle"
    /\ resp = NoResp
    /\ resp' = [LoginResponse(users, req, JWT_SECRET, now) EXCEPT !.token = {}]
    /\ UNCHANGED <<aux, now, clockSteps, JWT_SECRET, held, reqVars, route, users, nextID,
                   ENV, boot, index, inflight>>

\* controllers.Login; the client keeps the token of a successful login
Login(req) ==
    /\ pc = "idle"
    /\ resp = NoResp
    /\ resp' = LoginResponse(users, req, JWT_SECRET, now)
    /\ held' = (IF resp'.status = 200
                THEN {[tok |-> t, at |-> now, userID |-> resp'.user.ID,
                       email |-> resp'.user.Email] : t \in resp'.token}
                ELSE held)
    /\ UNCHANGED <<aux, now, clockSteps, JWT_SECRET, reqVars, route, users, nextID,
                   ENV, boot, index, inflight>>

\* the response of a public handler is written out
Reply ==
    /\ resp # NoResp
    /\ resp' = NoResp
    /\ UNCHANGED <<aux, now, clockSteps, JWT_SECRET, held, reqVars, route, users,
                   nextID, ENV, boot, index, inflight>>

\* the chain has come to the route's handler
AtHandler(name) ==
    /\ pc = "chain"
    /\ ~aborted
    /\ index <= Len(route.chain)
    /\ route.chain[index] = name

\* controllers.GetProfile with the outcome of repo.FindByID
GetProfileOfTable ==
    /\ AtHandler("GetProfile")
    /\ GetProfile(IF "user_id" \in DOMAIN Keys /\ FindByID(users, Keys["user_id"]) # {}
                  THEN "found" ELSE "notfound")

\* the names a client submits to UpdateProfile; <<>> leaves the field alone
UpdateNames == {<<>>, Str(<<"Z", "o", "e">>)}
UpdatePartners == {<<>>, Str(<<" ", "B", "o", "b">>)}

\* controllers.UpdateProfile
UpdateProfile(bound, name, partner) ==
    /\ AtHandler("UpdateProfile")
    /\ handlerRan' = TRUE
    /\ pc' = "done"
    /\ LET x == ExtractUserID(Authorization, JWT_SECRET, now)
           found == FindByID(users, x.userID)
       IN  IF x.err # NoError
           THEN /\ status' = 401
                /\ body' = x.err.msg
                /\ UNCHANGED <<users, handlerUserID>>
           ELSE /\ handlerUserID' = x.userID
                /\ IF ~bound
                   THEN /\ status' = 400
                        /\ body' = "invalid request data"
                        /\ UNCHANGED users
                   ELSE IF found = {}
                   THEN /\ status' = 404
                        /\ body' = "user not found"
                        /\ UNCHANGED users
                   ELSE LET user == CHOOSE r \in found : TRUE
                            named == IF name # <<>>
                                     THEN [user EXCEPT !.Name = TrimSpace(name)]
                                     ELSE user
                            saved == IF partner # <<>>
                                     THEN [named EXCEPT !.PartnerName = TrimSpace(partner)]
                                     ELSE named
                        IN  /\ users' = Update(users, saved)
                            /\ status' = 200
                            /\ body' = "profile updated successfully"
    /\ UNCHANGED <<aux, now, clockSteps, JWT_SECRET, held, Authorization, Keys, aborted,
                   verifyErr, setCount, verifiedAt, route, nextID, resp, ENV, boot,
                   index, inflight>>

\* controllers.DeleteUser
DeleteUser ==
    /\ AtHandler("DeleteUser")
    /\ handlerRan' = TRUE
    /\ pc' = "done"
    /\ LET x == ExtractUserID(Authorization, JWT_SECRET, now)
       IN  IF x.err # NoError
           THEN /\ status' = 401
                /\ body' = x.err.msg
                /\ UNCHANGED <<users, handlerUserID>>
           ELSE /\ handlerUserID' = x.userID
                /\ users' = Delete(users, x.userID)
                /\ status' = 200
                /\ body' = "user account deleted successfully"
    /\ UNCHANGED <<aux, now, clockSteps, JWT_SECRET, held, Authorization, Keys, aborted,
                   verifyErr, setCount, verifiedAt, route, nextID, resp, ENV, boot,
                   index, inflight>>

\* the protected user routes that have a handler
UserPaths == {<<"api", "v1", "user", "profile">>, <<"api", "v1", "user", "update">>,
              <<"api", "v1", "user", "delete">>}

\* between two requests
Idle == pc = "idle" /\ resp = NoResp /\ inflight = {}

NextUsers ==
    \/ \E d \in ClockSteps \ {1} : Idle /\ Tick(d)
    \/ \E bound \in BOOLEAN, u \in BoundUsers : RegisterUser(bound, u)
    \/ \E u \in inflight, dbErr \in BOOLEAN : CreateUser(u, dbErr)
    \/ \E req \in LoginRequests : Login(req)
    \/ Reply
    \/ \E r \in {x \in Engine[ENV] : x.path \in UserPaths},
          h \in {BearerOf(x.tok) : x \in held} : Idle /\ RouteRequest(r, h)
    \/ PassMiddleware
    \/ EnterAuthMiddleware
    \/ AuthMiddlewareVerify
    \/ AuthMiddlewareExtract
    \/ GetProfileOfTable
    \/ \E bound \in BOOLEAN, name \in UpdateNames, partner \in UpdatePartners :
          UpdateProfile(bound, name, partner)
    \/ DeleteUser
    \/ ChainAborted
    \/ Respond

SpecUsers == InitUsers /\ [][NextUsers]_vars

(***************************************************************************)
(* The process: package initialisation, LoadEnv, main, and the request     *)
(* goroutines that verify tokens at the same time once it serves.          *)
(***************************************************************************)
\* strings.Contains for a string kept in parts
Contains(s, x) == \E i \in 1..Len(s) : s[i] = x

\* configs.getEnv
getEnv(value, defaultValue) == IF value # "" THEN value ELSE defaultValue

\* the environments a process can be started in
Environs ==
    [JWT_SECRET : {"", ProcessSecret},
     DATABASE_URL : {<<>>, <<"host/db">>, DSN},
     ENV : {"", "production"}]

\* JWT_SECRET of the .env file, "" when the file or the key is missing
DotenvSecrets == {"", ProcessSecret}

InitBoot ==
    /\ now = StartTime + 1
    /\ clockSteps = 0
    /\ JWT_SECRET = ""
    /\ held = {}
    /\ Authorization = <<>>
    /\ pc = "idle"
    /\ Keys = NoKeys
    /\ aborted = FALSE
    /\ status = 0
    /\ body = ""
    /\ verifyErr = NoError
    /\ setCount = 0
    /\ handlerRan = FALSE
    /\ handlerUserID = NoUser
    /\ verifiedAt = NoDate
    /\ route = NoRoute
    /\ users = {}
    /\ nextID = 1
    /\ resp = NoResp
    /\ ENV = ""
    /\ index = 0
    /\ inflight = {}
    /\ proc = "init"
    /\ environ \in Environs
    /\ conc = NoConc
    /\ AuxIdle

\* the init package, imported by main for its effect: it calls LoadEnv
\* before main runs
PackageInit ==
    /\ proc = "init"
    /\ proc' = "loadenv"
    /\ UNCHANGED <<aux, now, clockSteps, JWT_SECRET, held, reqVars, route, users, nextID,
                   resp, ENV, index, inflight, environ, conc>>

\* LoadEnv going on with an empty secret
LoadEnv_NoCheck(dotenv) ==
    /\ proc = "loadenv"
    /\ LET loaded == IF environ.ENV # "production" /\ environ.JWT_SECRET = ""
                     THEN [environ EXCEPT !.JWT_SECRET = dotenv]
                     ELSE environ
       IN  /\ environ' = loaded
           /\ ENV' = getEnv(loaded.ENV, "development")
           /\ IF loaded.DATABASE_URL = <<>>
                 \/ ~Contains(loaded.DATABASE_URL, "@")
                 \/ ~Contains(loaded.DATABASE_URL, "tcp(")
              THEN /\ proc' = "exited"
                   /\ UNCHANGED JWT_SECRET
              ELSE /\ JWT_SECRET' = loaded.JWT_SECRET
                   /\ proc' = "main"
    /\ UNCHANGED <<aux, now, clockSteps, held, reqVars, route, users, nextID, resp,
                   index, inflight, conc>>

\* configs.LoadEnv; log.Fatal ends the process
LoadEnv(dotenv) ==
    /\ proc = "loadenv"
    /\ LET loaded == IF environ.ENV # "production" /\ environ.JWT_SECRET = ""
                     THEN [environ EXCEPT !.JWT_SECRET = dotenv]
                     ELSE environ
       IN  /\ environ' = loaded
           /\ ENV' = getEnv(loaded.ENV, "development")
           /\ IF loaded.DATABASE_URL = <<>>
                 \/ ~Contains(loaded.DATABASE_URL, "@")
                 \/ ~Contains(loaded.DATABASE_URL, "tcp(")
              THEN /\ proc' = "exited"
                   /\ UNCHANGED JWT_SECRET
              ELSE /\ JWT_SECRET' = loaded.JWT_SECRET
                   /\ proc' = (IF loaded.JWT_SECRET = "" THEN "exited" ELSE "main")
    /\ UNCHANGED <<aux, now, clockSteps, held, reqVars, route, users, nextID, resp,
                   index, inflight, conc>>

\* main: InitializeDatabase, NewServer, RunServer up to ListenAndServe
main(connected) ==
    /\ proc = "main"
    /\ proc' = (IF connected THEN "serving" ELSE "exited")
    /\ UNCHANGED <<aux, now, clockSteps, JWT_SECRET, held, reqVars, route, users, nextID,
                   resp, ENV, index, inflight, environ, conc>>

\* RunServer after the shutdown signal; the requests in progress end
Shutdown ==
    /\ proc = "serving"
    /\ proc' = "exited"
    /\ conc' = NoConc
    /\ UNCHANGED <<aux, now, clockSteps, JWT_SECRET, held, reqVars, route, users, nextID,
                   resp, ENV, index, inflight, environ>>

\* a request reaches VerifyToken in its own goroutine
StartVerify(w, h) ==
    /\ proc = "serving"
    /\ conc[w].pc = "idle"
    /\ conc' = [conc EXCEPT ![w] = [IdleWorker EXCEPT !.pc = "parse", !.header = h]]
    /\ UNCHANGED <<aux, now, clockSteps, JWT_SECRET, held, reqVars, route, users, nextID,
                   resp, ENV, index, inflight, proc, environ>>

\* the key function writing the secret it hands out
ReadKey_Rotating(w) ==
    /\ proc = "serving"
    /\ conc[w].pc = "parse"
    /\ conc' = [conc EXCEPT ![w].pc = "verify", ![w].key = JWT_SECRET]
    /\ JWT_SECRET' = JWT_SECRET \o "'"
    /\ UNCHANGED <<aux, now, clockSteps, held, reqVars, route, users, nextID,
                   resp, ENV, index, inflight, proc, environ>>

\* jwt.ParseWithClaims calls the key function: returnVerificationKey reads
\* configs.JWT_SECRET
ReadKey(w) ==
    /\ proc = "serving"
    /\ conc[w].pc = "parse"
    /\ conc' = [conc EXCEPT ![w].pc = "verify", ![w].key = JWT_SECRET]
    /\ UNCHANGED <<aux, now, clockSteps, JWT_SECRET, held, reqVars, route, users, nextID,
                   resp, ENV, index, inflight, proc, environ>>

\* the rest of VerifyToken with the key that was handed out
FinishVerify(w) ==
    /\ proc = "serving"
    /\ conc[w].pc = "verify"
    /\ conc' = [conc EXCEPT ![w].pc = "done",
                            ![w].err = VerifyToken(conc[w].header, conc[w].key, now)]
    /\ UNCHANGED <<aux, now, clockSteps, JWT_SECRET, held, reqVars, route, users, nextID,
                   resp, ENV, index, inflight, proc, environ>>

\* the request is answered and its goroutine ends
EndVerify(w) ==
    /\ proc = "serving"
    /\ conc[w].pc = "done"
    /\ conc' = [conc EXCEPT ![w] = IdleWorker]
    /\ UNCHANGED <<aux, now, clockSteps, JWT_SECRET, held, reqVars, route, users, nextID,
                   resp, ENV, index, inflight, proc, environ>>

NextBoot ==
    \/ PackageInit
    \/ \E dotenv \in DotenvSecrets : LoadEnv(dotenv)
    \/ \E connected \in BOOLEAN : main(connected)
    \/ \E u \in UserIDs, e \in Emails : proc = "serving" /\ Issue(u, e)
    \/ \E w \in Workers,
          h \in {<<>>, Bearer_ \o abc123} \cup {BearerOf(x.tok) : x \in held} :
             StartVerify(w, h)
    \/ \E w \in Workers : ReadKey(w)
    \/ \E w \in Workers : FinishVerify(w)
    \/ \E w \in Workers : EndVerify(w)
    \/ Shutdown

SpecBoot == InitBoot /\ [][NextBoot]_vars

(***************************************************************************)
(* The password hasher on its own: EncryptPassword, CheckPassword and the  *)
(* answer Login gives from the comparison.                                 *)
(***************************************************************************)

\* the token gate and the tables at rest in a serving process
ServingIdle ==
    /\ now = StartTime + 1
    /\ clockSteps = 0
    /\ JWT_SECRET = ProcessSecret
    /\ held = {}
    /\ Authorization = <<>>
    /\ pc = "idle"
    /\ Keys = NoKeys
    /\ aborted = FALSE
    /\ status = 0
    /\ body = ""
    /\ verifyErr = NoError
    /\ setCount = 0
    /\ handlerRan = FALSE
    /\ handlerUserID = NoUser
    /\ verifiedAt = NoDate
    /\ route = NoRoute
    /\ users = {}
    /\ nextID = 1
    /\ resp = NoResp
    /\ ENV = "development"
    /\ index = 0
    /\ inflight = {}
    /\ proc = "serving"
    /\ environ = ServingEnviron("development")
    /\ conc = NoConc

\* the token gate, the users table and the process, which the components
\* below leave as they are
service ==
    <<now, clockSteps, JWT_SECRET, held, reqVars, route, users, nextID, resp, ENV,
      index, inflight, boot>>

\* the passwords a client submits to the hasher; Long72 is Password1
\* repeated up to the 72 bytes bcrypt reads
HasherPasswords ==
    LET Long72 == [i \in 1..bcryptMaxLen |->
                      Password1[((i - 1) % Len(Password1)) + 1]]
    IN  {Password1, wrongpass, Str(<<"P">>), Password1 \o Str(<<"!">>),
         Password1 \o <<NUL>> \o Password1, Long72, Long72 \o Str(<<"x">>)}

InitHasher ==
    /\ ServingIdle
    /\ hasher \in [pc : {"start"}, p : HasherPasswords, q : HasherPasswords]
    /\ weddings = {}
    /\ nextWID = 1
    /\ wresp = AtRest
    /\ db = AtRest
    /\ srv = AtRest
    /\ upd = AtRest

\* registration hashes the password p
Encrypt ==
    /\ hasher.pc = "start"
    /\ LET hashed == EncryptPassword(hasher.p)
       IN  hasher' = IF "err" \in DOMAIN hashed
                     THEN [pc |-> "refused", p |-> hasher.p, q |-> hasher.q]
                     ELSE [pc |-> "hashed", p |-> hasher.p, q |-> hasher.q,
                           hash |-> hashed]
    /\ UNCHANGED <<service, weddings, nextWID, wresp, db, srv, upd>>

\* the stored hash is compared with the password q
Check ==
    /\ hasher.pc = "hashed"
    /\ hasher' = [pc |-> "checked", p |-> hasher.p, q |-> hasher.q,
                  hash |-> hasher.hash,
                  match |-> CheckPassword(hasher.hash, hasher.q)]
    /\ UNCHANGED <<service, weddings, nextWID, wresp, db, srv, upd>>

\* Login of the user whose row holds the hash, with the password q
LoginWith ==
    /\ hasher.pc = "checked"
    /\ LET row == [ID |-> 1, Name |-> Str(<<"A", "n", "n">>), Email |-> a_b_com,
                   PasswordHash |-> hasher.hash,
                   PartnerName |-> Str(<<"B", "o", "b">>), Deleted |-> FALSE]
           req == [bound |-> TRUE, dbErr |-> FALSE, email |-> a_b_com,
                   password |-> hasher.q]
       IN  hasher' = [pc |-> "answered", p |-> hasher.p, q |-> hasher.q,
                      hash |-> hasher.hash, match |-> hasher.match,
                      status |-> LoginResponse({row}, req, JWT_SECRET, now).status]
    /\ UNCHANGED <<service, weddings, nextWID, wresp, db, srv, upd>>

NextHasher ==
    \/ Encrypt
    \/ Check
    \/ LoginWith

SpecHasher == InitHasher /\ [][NextHasher]_vars

(***************************************************************************)
(* The weddings: models.Wedding, the WeddingRepository and the wedding      *)
(* controllers, each request handled in one step.                          *)
(***************************************************************************)
MaxWeddings == 2

\* strconv.ParseUint(s, 10, 32) of a string of digits
RECURSIVE ParseUint(_)
ParseUint(s) ==
    IF s = <<>> THEN 0
    ELSE ParseUint(SubSeq(s, 1, Len(s) - 1)) * 10
         + (CHOOSE d \in 0..9 : Digits[d + 1] = s[Len(s)].ch)

\* parseIDParam: the ID, 0 with the error "invalid ID parameter"
parseIDParam(idStr) ==
    IF idStr # <<>> /\ \A i \in 1..Len(idStr) : idStr[i].ch \in {Digits[d] : d \in 1..10}
    THEN ParseUint(idStr)
    ELSE 0

\* Wedding.IsValid accepting every wedding
WeddingIsValid_Accepting(w, t) == [err |-> "", wedding |-> w]

\* Wedding.IsValid at time t: the error message ("" for nil) and the
\* wedding after normalize
WeddingIsValid(w, t) ==
    LET n == [w EXCEPT !.VenueName = TrimSpace(w.VenueName),
                       !.VenueAddress = TrimSpace(w.VenueAddress),
                       !.EventTime = TrimSpace(w.EventTime)]
        Year == 365 * TokenExpirationTime
        digit(e) == e.ch \in {Digits[d] : d \in 1..10}
        upto(e, hi) == e.ch \in {Digits[d] : d \in 1..(hi + 1)}
        minutes(x, i) == x[i] = Ch(":") /\ upto(x[i + 1], 5) /\ digit(x[i + 2])
        \* ^([01]?[0-9]|2[0-3]):[0-5][0-9]$
        timeRegex24h(x) ==
            \/ Len(x) = 4 /\ digit(x[1]) /\ minutes(x, 2)
            \/ /\ Len(x) = 5
               /\ \/ upto(x[1], 1) /\ digit(x[2])
                  \/ x[1] = Ch("2") /\ upto(x[2], 3)
               /\ minutes(x, 3)
        meridiem(x, i) ==
            SubSeq(x, i, i + 1) \in {Str(<<"A", "M">>), Str(<<"P", "M">>),
                                     Str(<<"a", "m">>), Str(<<"p", "m">>)}
        \* ^(0?[1-9]|1[0-2]):[0-5][0-9]\s?(AM|PM|am|pm)$
        timeRegex12h(x) ==
            \E h \in {1, 2}, sp \in {0, 1} :
                /\ Len(x) = h + 3 + sp + 2
                /\ IF h = 1 THEN digit(x[1]) /\ x[1] # Ch("0")
                   ELSE \/ x[1] = Ch("0") /\ digit(x[2]) /\ x[2] # Ch("0")
                        \/ x[1] = Ch("1") /\ upto(x[2], 2)
                /\ minutes(x, h + 1)
                /\ sp = 1 => IsSpace(x[h + 4])
                /\ meridiem(x, h + 4 + sp)
        e == IF n.EventDate = 0 THEN "event date is required"
             ELSE IF n.EventDate < t - Year
                  THEN "event date cannot be more than 1 year in the past"
             ELSE IF n.EventDate > t + 10 * Year
                  THEN "event date cannot be more than 10 years in the future"
             ELSE IF n.VenueName = <<>> THEN "venue name is required"
             ELSE IF Len(n.VenueName) < 3
                  THEN "venue name must be at least 3 characters long"
             ELSE IF Len(n.VenueName) > 200
                  THEN "venue name must not exceed 200 characters"
             ELSE IF n.VenueAddress = <<>> THEN "venue address is required"
             ELSE IF Len(n.VenueAddress) < 10
                  THEN "venue address must be at least 10 characters long"
             ELSE IF Len(n.VenueAddress) > 1000
                  THEN "venue address must not exceed 1000 characters"
             ELSE IF n.EventTime = <<>> THEN "event time is required"
             ELSE IF ~timeRegex24h(n.EventTime) /\ ~timeRegex12h(n.EventTime)
                  THEN "event time must be in format HH:MM or HH:MM AM/PM"
             ELSE IF n.MaxGuests < 0 THEN "max guests cannot be negative"
             ELSE IF n.MaxGuests > 10000 THEN "max guests cannot exceed 10,000"
             ELSE IF n.CurrentGuestCount > n.MaxGuests
                  THEN "current guest count cannot exceed max guests"
             ELSE ""
    IN  [err |-> e, wedding |-> n]

\* Wedding.DaysRemaining at time t
DaysRemaining(w, t) ==
    LET d == w.EventDate - t
    IN  IF w.EventDate = 0 THEN 0
        ELSE IF d >= 0 THEN d \div TokenExpirationTime
        ELSE 0 - ((0 - d) \div TokenExpirationTime)

\* FindByIDAndUserID looking the wedding up by its ID alone
FindByIDAndUserID_AnyOwner(table, weddingID, userID) ==
    {r \in table : r.ID = weddingID /\ ~r.Deleted}

\* WeddingRepository.FindByIDAndUserID: the rows First can return
FindByIDAndUserID(table, weddingID, userID) ==
    {r \in table : r.ID = weddingID /\ r.UserID = userID /\ ~r.Deleted}

\* WeddingRepository.FindByUserID
FindByUserID(table, userID) == {r \in table : r.UserID = userID /\ ~r.Deleted}

\* the update that writes every field of updateData, absent ones as zero
Patch_AllFields(wedding, updateData) ==
    [wedding EXCEPT
        !.VenueName = IF "VenueName" \in DOMAIN updateData
                      THEN updateData.VenueName ELSE <<>>,
        !.MaxGuests = IF "MaxGuests" \in DOMAIN updateData
                      THEN updateData.MaxGuests ELSE 0,
        !.CurrentGuestCount = 0]

\* UpdateWedding: the fields of updateData that are not nil are written
\* to the wedding read
Patch(wedding, updateData) ==
    LET field(w, f) == IF f \in DOMAIN updateData
                       THEN [w EXCEPT ![f] = updateData[f]] ELSE w
    IN  field(field(field(field(field(wedding, "VenueName"), "VenueAddress"),
                    "EventDate"), "EventTime"), "MaxGuests")

\* the weddings ShouldBindJSON leaves for CreateWedding
WeddingBodies ==
    LET Hall == Str(<<"H", "a", "l", "l">>)
        Address == Str(<<"1", "2", " ", "M", "a", "i", "n", " ", "S", "t", ".">>)
        At1830 == Str(<<"1", "8", ":", "3", "0">>)
        InAMonth == StartTime + 30 * TokenExpirationTime
    IN  [ID : {0, 2}, UserID : {0, 7}, VenueName : {Hall}, VenueAddress : {Address},
         EventDate : {InAMonth}, EventTime : {At1830},
         MaxGuests : {0 - 1, 6, 10001}, CurrentGuestCount : {6, 7}, Deleted : {FALSE}]
        \cup
        [ID : {0}, UserID : {0}, VenueName : {Str(<<" ", "H", "a", "l", "l", " ">>)},
         VenueAddress : {Address}, EventDate : {0, InAMonth},
         EventTime : {At1830, Str(<<"2", "5", ":", "0", "0">>)},
         MaxGuests : {6}, CurrentGuestCount : {6}, Deleted : {FALSE}]

\* the updateData ShouldBindJSON leaves for UpdateWedding
UpdateBodies ==
    {[x \in {} |-> 0]}
    \cup [MaxGuests : {0 - 1, 5, 10001}]
    \cup [VenueName : {Str(<<"B">>)}]
    \cup [VenueName : {Str(<<"B", "a", "r", "n", " ">>)}, MaxGuests : {7}]
    \cup [EventTime : {Str(<<"6", ":", "3", "0", " ", "P", "M">>)}, MaxGuests : {7}]

\* the id parameter of the URL
IDParams == {Str(<<"0">>), Str(<<"1">>), Str(<<"2">>), Str(<<"x">>)}

\* the user_id of the gin.Context: NoUser when AuthMiddleware has set none
Callers == UserIDs \cup {NoUser}

\* the answer of a wedding handler, with the request it answers
WeddingResponse(handler, caller, id, data, code, msg, rows) ==
    [pc |-> "answered", handler |-> handler, caller |-> caller, id |-> id,
     data |-> data, status |-> code, error |-> msg, rows |-> rows]

InitWeddings ==
    /\ ServingIdle
    /\ hasher = AtRest
    /\ weddings = {}
    /\ nextWID = 1
    /\ wresp = AtRest
    /\ db = AtRest
    /\ srv = AtRest
    /\ upd = AtRest

\* controllers.CreateWedding
CreateWedding(caller, bound, json, dbErr) ==
    /\ wresp = AtRest
    /\ LET wedding == [json EXCEPT !.UserID = caller]
           v == WeddingIsValid(wedding, now)
           row == [v.wedding EXCEPT !.ID = IF v.wedding.ID = 0 THEN nextWID
                                           ELSE v.wedding.ID]
           answer(code, msg, rows) ==
               WeddingResponse("CreateWedding", caller, 0, json, code, msg, rows)
       IN  IF caller = NoUser
           THEN /\ wresp' = answer(401, "authentication required", {})
                /\ UNCHANGED <<weddings, nextWID>>
           ELSE IF ~bound
           THEN /\ wresp' = answer(400, "invalid request data", {})
                /\ UNCHANGED <<weddings, nextWID>>
           ELSE IF v.err # ""
           THEN /\ wresp' = answer(400, v.err, {})
                /\ UNCHANGED <<weddings, nextWID>>
           ELSE IF dbErr \/ \E r \in weddings : r.ID = row.ID
           THEN /\ wresp' = answer(500, "unable to create wedding", {})
                /\ UNCHANGED <<weddings, nextWID>>
           ELSE /\ Cardinality(weddings) < MaxWeddings
                /\ weddings' = weddings \cup {row}
                /\ nextWID' = IF row.ID >= nextWID THEN row.ID + 1 ELSE nextWID
                /\ wresp' = answer(201, "", {row})
    /\ UNCHANGED <<service, hasher, db, srv, upd>>

\* controllers.GetWeddings
GetWeddings(caller, dbErr) ==
    /\ wresp = AtRest
    /\ LET answer(code, msg, rows) ==
               WeddingResponse("GetWeddings", caller, 0, <<>>, code, msg, rows)
       IN  wresp' = IF caller = NoUser
                    THEN answer(401, "authentication required", {})
                    ELSE IF dbErr
                    THEN answer(500, "unable to fetch weddings", {})
                    ELSE answer(200, "", FindByUserID(weddings, caller))
    /\ UNCHANGED <<service, hasher, weddings, nextWID, db, srv, upd>>

\* controllers.GetWedding
GetWedding(caller, idStr, dbErr) ==
    /\ wresp = AtRest
    /\ LET weddingID == parseIDParam(idStr)
           found == IF dbErr THEN {}
                    ELSE FindByIDAndUserID(weddings, weddingID, caller)
           answer(code, msg, rows) ==
               WeddingResponse("GetWedding", caller, weddingID, <<>>, code, msg, rows)
       IN  wresp' = IF caller = NoUser
                    THEN answer(401, "authentication required", {})
                    ELSE IF weddingID = 0
                    THEN answer(400, "invalid ID parameter", {})
                    ELSE IF found = {}
                    THEN answer(404, "wedding not found or access denied", {})
                    ELSE answer(200, "", found)
    /\ UNCHANGED <<service, hasher, weddings, nextWID, db, srv, upd>>

\* controllers.GetCountdown: the answer carries the status of the countdown
GetCountdown(caller, idStr, dbErr) ==
    /\ wresp = AtRest
    /\ LET weddingID == parseIDParam(idStr)
           found == IF dbErr THEN {}
                    ELSE FindByIDAndUserID(weddings, weddingID, caller)
           answer(code, msg, rows) ==
               WeddingResponse("GetCountdown", caller, weddingID, <<>>, code, msg, rows)
           countdown(w) ==
               IF DaysRemaining(w, now) < 0 THEN "past"
               ELSE IF DaysRemaining(w, now) = 0 THEN "today" ELSE "upcoming"
       IN  wresp' = IF caller = NoUser
                    THEN answer(401, "authentication required", {})
                    ELSE IF weddingID = 0
                    THEN answer(400, "invalid ID parameter", {})
                    ELSE IF found = {}
                    THEN answer(404, "wedding not found or access denied", {})
                    ELSE answer(200, countdown(CHOOSE w \in found : TRUE), found)
    /\ UNCHANGED <<service, hasher, weddings, nextWID, db, srv, upd>>

\* controllers.UpdateWedding; dbErr is "find" or "save" when that query fails
UpdateWedding(caller, idStr, bound, updateData, dbErr) ==
    /\ wresp = AtRest
    /\ LET weddingID == parseIDParam(idStr)
           found == IF dbErr = "find" THEN {}
                    ELSE FindByIDAndUserID(weddings, weddingID, caller)
           answer(code, msg, rows) ==
               WeddingResponse("UpdateWedding", caller, weddingID, updateData,
                               code, msg, rows)
       IN  IF caller = NoUser
           THEN wresp' = answer(401, "authentication required", {}) /\ UNCHANGED weddings
           ELSE IF weddingID = 0
           THEN wresp' = answer(400, "invalid ID parameter", {}) /\ UNCHANGED weddings
           ELSE IF found = {}
           THEN /\ wresp' = answer(404, "wedding not found or access denied", {})
                /\ UNCHANGED weddings
           ELSE IF ~bound
           THEN wresp' = answer(400, "invalid request data", {}) /\ UNCHANGED weddings
           ELSE LET wedding == CHOOSE w \in found : TRUE
                    v == WeddingIsValid(Patch(wedding, updateData), now)
                IN  IF v.err # ""
                    THEN wresp' = answer(400, v.err, {}) /\ UNCHANGED weddings
                    ELSE IF dbErr = "save"
                    THEN /\ wresp' = answer(500, "unable to update wedding", {})
                         /\ UNCHANGED weddings
                    ELSE /\ weddings' = (weddings \ {wedding}) \cup {v.wedding}
                         /\ wresp' = answer(200, "", {v.wedding})
    /\ UNCHANGED <<service, hasher, nextWID, db, srv, upd>>

\* controllers.DeleteWedding (soft delete)
DeleteWedding(caller, idStr, dbErr) ==
    /\ wresp = AtRest
    /\ LET weddingID == parseIDParam(idStr)
           found == IF dbErr = "find" THEN {}
                    ELSE FindByIDAndUserID(weddings, weddingID, caller)
           answer(code, msg, rows) ==
               WeddingResponse("DeleteWedding", caller, weddingID, <<>>, code, msg, rows)
       IN  IF caller = NoUser
           THEN wresp' = answer(401, "authentication required", {}) /\ UNCHANGED weddings
           ELSE IF weddingID = 0
           THEN wresp' = answer(400, "invalid ID parameter", {}) /\ UNCHANGED weddings
           ELSE IF found = {}
           THEN /\ wresp' = answer(404, "wedding not found or access denied", {})
                /\ UNCHANGED weddings
           ELSE IF dbErr = "save"
           THEN /\ wresp' = answer(500, "unable to delete wedding", {})
                /\ UNCHANGED weddings
           ELSE /\ weddings' = {IF r.ID = weddingID THEN [r EXCEPT !.Deleted = TRUE]
                                ELSE r : r \in weddings}
                /\ wresp' = answer(200, "", {})
    /\ UNCHANGED <<service, hasher, nextWID, db, srv, upd>>

\* the answer is written and the next request is taken
WeddingReply ==
    /\ wresp # AtRest
    /\ wresp' = AtRest
    /\ UNCHANGED <<service, hasher, weddings, nextWID, db, srv, upd>>

NextWeddings ==
    \/ \E caller \in Callers, bound \in BOOLEAN, json \in WeddingBodies,
          dbErr \in BOOLEAN : CreateWedding(caller, bound, json, dbErr)
    \/ \E caller \in Callers, dbErr \in BOOLEAN : GetWeddings(caller, dbErr)
    \/ \E caller \in Callers, idStr \in IDParams, dbErr \in BOOLEAN :
          GetWedding(caller, idStr, dbErr)
    \/ \E caller \in Callers, idStr \in IDParams, dbErr \in BOOLEAN :
          GetCountdown(caller, idStr, dbErr)
    \/ \E caller \in Callers, idStr \in IDParams, bound \in BOOLEAN,
          updateData \in UpdateBodies, dbErr \in {"", "find", "save"} :
          UpdateWedding(caller, idStr, bound, updateData, dbErr)
    \/ \E caller \in Callers, idStr \in IDParams, dbErr \in {"", "find", "save"} :
          DeleteWedding(caller, idStr, dbErr)
    \/ WeddingReply

SpecWeddings == InitWeddings /\ [][NextWeddings]_vars

(***************************************************************************)
(* database.ConnectDB: the attempts to open the database, the waits        *)
(* between them, the pool configuration and the ping.                      *)
(***************************************************************************)
maxRetries == 5

\* the loop of ConnectDB going on after the attempt with index i, one
\* attempt too many
Retry_OneMore(i) == i + 1 <= maxRetries

\* the loop condition of ConnectDB after the attempt with index i
Retry(i) == i + 1 < maxRetries

\* waitTime after the failed attempt with index i
waitTime(i) == (i + 1) * 2 * Second

\* ConnectDB before its first statement, called with configs.DATABASE_URL
\* = dsn and configs.ENV = env
InitConnect ==
    /\ ServingIdle
    /\ hasher = AtRest
    /\ weddings = {}
    /\ nextWID = 1
    /\ wresp = AtRest
    /\ db \in [pc : {"start"}, dsn : {<<>>, DSN},
               env : {"development", "staging", "production"}, i : {0},
               tries : {<<>>}, waits : {<<>>}, err : {""}, logLevel : {""},
               DB : {"nil"}]
    /\ srv = AtRest
    /\ upd = AtRest

\* ConnectDB up to the loop: the DSN check and the logger
CheckDSN ==
    /\ db.pc = "start"
    /\ db' = IF db.dsn = <<>>
             THEN [db EXCEPT !.pc = "returned", !.err = "DATABASE_URL não configurada"]
             ELSE [db EXCEPT !.pc = "open",
                             !.logLevel = IF db.env = "production" THEN "Error"
                                          ELSE "Info"]
    /\ UNCHANGED <<service, hasher, weddings, nextWID, wresp, srv, upd>>

\* one gorm.Open of the loop; on failure waitTime is computed and logged
Open(ok) ==
    /\ db.pc = "open"
    /\ db' = IF ok
             THEN [db EXCEPT !.pc = "pool", !.tries = Append(@, TRUE), !.err = "",
                             !.DB = "open"]
             ELSE [db EXCEPT !.pc = "sleep", !.tries = Append(@, FALSE),
                             !.err = "dial error",
                             !.waits = Append(@, waitTime(db.i))]
    /\ UNCHANGED <<service, hasher, weddings, nextWID, wresp, srv, upd>>

\* time.Sleep(waitTime), i++ and the loop condition; after the loop the
\* error of the last attempt is returned
Sleep ==
    /\ db.pc = "sleep"
    /\ db' = IF Retry(db.i)
             THEN [db EXCEPT !.pc = "open", !.i = @ + 1]
             ELSE [db EXCEPT !.pc = "returned", !.i = @ + 1,
                             !.err = "falha ao conectar após 5 tentativas: dial error"]
    /\ UNCHANGED <<service, hasher, weddings, nextWID, wresp, srv, upd>>

\* DB.DB() and the pool configuration
ConfigurePool(ok) ==
    /\ db.pc = "pool"
    /\ db' = IF ok THEN [db EXCEPT !.pc = "ping", !.DB = "configured"]
             ELSE [db EXCEPT !.pc = "returned", !.err = "erro ao obter *sql.DB"]
    /\ UNCHANGED <<service, hasher, weddings, nextWID, wresp, srv, upd>>

\* sqlDB.PingContext with its 5 second timeout, and the return
Ping(ok) ==
    /\ db.pc = "ping"
    /\ db' = IF ok THEN [db EXCEPT !.pc = "returned", !.DB = "connected"]
             ELSE [db EXCEPT !.pc = "returned", !.err = "falha no ping do banco"]
    /\ UNCHANGED <<service, hasher, weddings, nextWID, wresp, srv, upd>>

NextConnect ==
    \/ CheckDSN
    \/ \E ok \in BOOLEAN : Open(ok)
    \/ Sleep
    \/ \E ok \in BOOLEAN : ConfigurePool(ok)
    \/ \E ok \in BOOLEAN : Ping(ok)

\* ConnectDB is sequential code whose calls return: every step is taken
SpecConnect == InitConnect /\ [][NextConnect]_vars /\ WF_vars(NextConnect)

(***************************************************************************)
(* Server.RunServer: the listener goroutine, the shutdown signal, the      *)
(* shutdown of the HTTP server and the closing of the database.            *)
(***************************************************************************)
MaxConns == 2

\* RunServer after the goroutine and signal.Notify, waiting in its select;
\* database.DB was opened by InitializeDatabase
InitShutdown ==
    /\ ServingIdle
    /\ hasher = AtRest
    /\ weddings = {}
    /\ nextWID = 1
    /\ wresp = AtRest
    /\ db = AtRest
    /\ srv = [pc |-> "select", listener |-> "starting", serverErrors |-> <<>>,
              shutdown |-> <<>>, conns |-> 0, handled |-> "",
              httpDown |-> FALSE, pool |-> "open", ret |-> ""]
    /\ upd = AtRest

\* the goroutine: srv.ListenAndServe binds the port, or fails and sends its
\* error to serverErrors
ListenAndServe(ok) ==
    /\ srv.listener = "starting"
    /\ ~srv.httpDown
    /\ srv' = IF ok THEN [srv EXCEPT !.listener = "serving"]
              ELSE [srv EXCEPT !.listener = "failed",
                               !.serverErrors = <<"listen error">>]
    /\ UNCHANGED <<service, hasher, weddings, nextWID, wresp, db, upd>>

\* a connection is accepted and its request is being served
Accept ==
    /\ srv.listener = "serving"
    /\ srv.conns < MaxConns
    /\ srv' = [srv EXCEPT !.conns = @ + 1]
    /\ UNCHANGED <<service, hasher, weddings, nextWID, wresp, db, upd>>

\* a request is answered and its connection becomes idle
Served ==
    /\ srv.conns > 0
    /\ srv' = [srv EXCEPT !.conns = @ - 1]
    /\ UNCHANGED <<service, hasher, weddings, nextWID, wresp, db, upd>>

\* the process receives os.Interrupt or SIGTERM: signal.Notify puts it in
\* the channel of capacity 1
Signal(sig) ==
    /\ srv.pc # "returned"
    /\ srv.shutdown = <<>>
    /\ srv' = [srv EXCEPT !.shutdown = <<sig>>]
    /\ UNCHANGED <<service, hasher, weddings, nextWID, wresp, db, upd>>

\* select, case err := <-serverErrors: RunServer returns the error
SelectServerError ==
    /\ srv.pc = "select"
    /\ srv.serverErrors # <<>>
    /\ srv' = [srv EXCEPT !.pc = "returned", !.serverErrors = <<>>,
                          !.ret = "erro ao iniciar servidor"]
    /\ UNCHANGED <<service, hasher, weddings, nextWID, wresp, db, upd>>

\* select, case sig := <-shutdown: the context of 30 seconds is made
SelectShutdown ==
    /\ srv.pc = "select"
    /\ srv.shutdown # <<>>
    /\ srv' = [srv EXCEPT !.pc = "shutdown", !.shutdown = <<>>,
                          !.handled = Head(srv.shutdown)]
    /\ UNCHANGED <<service, hasher, weddings, nextWID, wresp, db, upd>>

\* srv.Shutdown(ctx): the listener is closed, so that ListenAndServe
\* returns ErrServerClosed to serverErrors; Shutdown returns nil once every
\* connection is idle, and the error of the context when the 30 seconds
\* pass first (timeout)
Shutdown_(timeout) ==
    /\ srv.pc = "shutdown"
    /\ LET closed == [srv EXCEPT
                         !.listener = "closed",
                         !.serverErrors = IF srv.listener = "serving"
                                          THEN <<"http: Server closed">> ELSE @]
       IN  IF timeout
           THEN /\ srv.conns > 0
                /\ srv' = [closed EXCEPT !.pc = "close"]
           ELSE /\ srv.conns = 0
                /\ srv' = [closed EXCEPT !.pc = "closedb", !.httpDown = TRUE]
    /\ UNCHANGED <<service, hasher, weddings, nextWID, wresp, db, upd>>

\* srv.Close() after a failed Shutdown: the connections are closed; its
\* error makes RunServer return
Close(ok) ==
    /\ srv.pc = "close"
    /\ srv' = IF ok THEN [srv EXCEPT !.pc = "closedb", !.conns = 0, !.httpDown = TRUE]
              ELSE [srv EXCEPT !.pc = "returned", !.conns = 0, !.httpDown = TRUE,
                               !.ret = "erro ao forçar fechamento"]
    /\ UNCHANGED <<service, hasher, weddings, nextWID, wresp, db, upd>>

\* database.CloseDatabase, whose error is only logged, and return nil
CloseDatabase(ok) ==
    /\ srv.pc = "closedb"
    /\ srv' = [srv EXCEPT !.pc = "returned", !.ret = "nil",
                          !.pool = IF ok THEN "closed" ELSE "close failed"]
    /\ UNCHANGED <<service, hasher, weddings, nextWID, wresp, db, upd>>

NextShutdown ==
    \/ \E ok \in BOOLEAN : ListenAndServe(ok)
    \/ Accept
    \/ Served
    \/ \E sig \in {"interrupt", "terminated"} : Signal(sig)
    \/ SelectServerError
    \/ SelectShutdown
    \/ \E timeout \in BOOLEAN : Shutdown_(timeout)
    \/ \E ok \in BOOLEAN : Close(ok)
    \/ \E ok \in BOOLEAN : CloseDatabase(ok)

SpecShutdown == InitShutdown /\ [][NextShutdown]_vars

(***************************************************************************)
(* UpdateProfile in two request goroutines: each binds its request, reads  *)
(* the user, changes the fields it was given and saves the row.            *)
(***************************************************************************)

\* a serving process without users; every request goroutine is free
InitUpdate ==
    /\ ServingIdle
    /\ hasher = AtRest
    /\ weddings = {}
    /\ nextWID = 1
    /\ wresp = AtRest
    /\ db = AtRest
    /\ srv = AtRest
    /\ upd = [w \in Workers |-> AtRest]

\* the updateData of the profile updates
ProfileUpdates ==
    [Name : {<<>>, Str(<<"Z", "o", "e">>)},
     PartnerName : {<<>>, Str(<<" ", "M", "a", "x">>)}]

\* UpdateProfile of goroutine w up to the lookup: ExtractUserID on the
\* token of a registered user, and ShouldBindJSON
BindUpdate(w, r, bound, updateData) ==
    /\ resp = NoResp
    /\ inflight = {}
    /\ upd[w] = AtRest
    /\ r \in users
    /\ LET x == ExtractUserID(BearerOf(CreateToken(r.ID, "a@b.com", JWT_SECRET, now)),
                              JWT_SECRET, now)
       IN  upd' = [upd EXCEPT ![w] =
                      IF x.err # NoError
                      THEN [pc |-> "done", status |-> 401, userID |-> 0,
                            updateData |-> updateData, user |-> NoRow]
                      ELSE IF ~bound
                      THEN [pc |-> "done", status |-> 400, userID |-> x.userID,
                            updateData |-> updateData, user |-> NoRow]
                      ELSE [pc |-> "find", status |-> 0, userID |-> x.userID,
                            updateData |-> updateData, user |-> NoRow]]
    /\ UNCHANGED <<service, hasher, weddings, nextWID, wresp, db, srv>>

\* repo.FindByID: the goroutine gets its own copy of the row
FindUser(w) ==
    /\ upd[w].pc = "find"
    /\ LET found == FindByID(users, upd[w].userID)
       IN  upd' = [upd EXCEPT ![w] =
                      IF found = {}
                      THEN [@ EXCEPT !.pc = "done", !.status = 404]
                      ELSE [@ EXCEPT !.pc = "save",
                                     !.user = CHOOSE r \in found : TRUE]]
    /\ UNCHANGED <<service, hasher, weddings, nextWID, wresp, db, srv>>

\* the given fields are set on the copy and repo.Update saves every column
\* of it
SaveUser(w, dbErr) ==
    /\ upd[w].pc = "save"
    /\ LET user == upd[w].user
           named == IF upd[w].updateData.Name # <<>>
                    THEN [user EXCEPT !.Name = TrimSpace(upd[w].updateData.Name)]
                    ELSE user
           saved == IF upd[w].updateData.PartnerName # <<>>
                    THEN [named EXCEPT
                             !.PartnerName = TrimSpace(upd[w].updateData.PartnerName)]
                    ELSE named
       IN  IF dbErr
           THEN /\ upd' = [upd EXCEPT ![w] = [@ EXCEPT !.pc = "done", !.status = 500]]
                /\ UNCHANGED users
           ELSE /\ users' = Update(users, saved)
                /\ upd' = [upd EXCEPT ![w] = [@ EXCEPT !.pc = "done", !.status = 200,
                                                       !.user = saved]]
    /\ UNCHANGED <<now, clockSteps, JWT_SECRET, held, reqVars, route, nextID, resp,
                   ENV, index, inflight, boot, hasher, weddings, nextWID, wresp, db,
                   srv>>

\* both answers are written and the goroutines end
EndUpdates ==
    /\ \A w \in Workers : upd[w].pc = "done"
    /\ upd' = [w \in Workers |-> AtRest]
    /\ UNCHANGED <<service, hasher, weddings, nextWID, wresp, db, srv>>

NextUpdate ==
    \/ \E u \in {b \in BoundUsers : b.ID = 0 /\ b.PasswordHash = Password1} :
          (\A w \in Workers : upd[w] = AtRest) /\ RegisterUser(TRUE, u)
    \/ \E u \in inflight : CreateUser(u, FALSE)
    \/ Reply
    \/ \E w \in Workers, r \in users, bound \in BOOLEAN, updateData \in ProfileUpdates :
          BindUpdate(w, r, bound, updateData)
    \/ \E w \in Workers : FindUser(w)
    \/ \E w \in Workers, dbErr \in BOOLEAN : SaveUser(w, dbErr)
    \/ EndUpdates

SpecUpdate == InitUpdate /\ [][NextUpdate]_vars

(***************************************************************************)
(* Properties.                                                             *)
(***************************************************************************)
\* the request in the pipeline carries a token (a compact serialisation)
CarriesToken == LET ts == ExtractToken(Authorization) IN
                Len(ts) = 1 /\ "jwt" \in DOMAIN ts[1]
CarriedToken == ExtractToken(Authorization)[1].jwt
GatePassed == pc \in {"chain", "done"}
CorrectlySigned(tok) ==
    /\ tok.wellFormed
    /\ tok.alg \in HMACMethods
    /\ tok.sig = Sign(tok.alg, SigningText(tok.alg, tok.claims), JWT_SECRET)

\* C1: a request for which VerifyToken returned an error is answered 401
\* with that error's message, the chain is aborted, the handler has not run
\* and user_id is not in the context; without an Authorization header the
\* message is "authorization token is missing".
C1_RejectedByGate ==
    /\ (GatePassed /\ verifyErr # NoError) =>
          /\ status = 401
          /\ body = verifyErr.msg
          /\ aborted
          /\ ~handlerRan
          /\ "user_id" \notin DOMAIN Keys
          /\ setCount = 0
    /\ (GatePassed /\ Authorization = <<>>) =>
          /\ status = 401
          /\ body = "authorization token is missing"
          /\ ~handlerRan

C1_Witness ==
    /\ pc = "done"
    /\ verifyErr = ErrTokenExpired
    /\ status = 401
    /\ CarriesToken

C1_WitnessMissing ==
    /\ pc = "done"
    /\ Authorization = <<>>
    /\ status = 401

\* C2: when the handler of a protected route is about to run or has run,
\* user_id is in the context, was set exactly once, and is the user ID of
\* the token the request carries; the handler never answers
\* "authentication required".
C2_UserIDAttached ==
    /\ (pc = "chain" /\ ~aborted) =>
          /\ setCount = 1
          /\ "user_id" \in DOMAIN Keys
          /\ CarriesToken
          /\ Keys["user_id"] = CarriedToken.claims.UserID
    /\ handlerRan =>
          /\ setCount = 1
          /\ "user_id" \in DOMAIN Keys
          /\ CarriesToken
          /\ Keys["user_id"] = CarriedToken.claims.UserID
          /\ handlerUserID = CarriedToken.claims.UserID
          /\ body # "authentication required"

C2_Witness ==
    /\ pc = "done"
    /\ handlerRan
    /\ status = 200
    /\ handlerUserID = 42

\* the number a string of decimal digits denotes
RECURSIVE DecimalValue(_)
DecimalValue(s) ==
    IF s = <<>> THEN 0
    ELSE 10 * DecimalValue(SubSeq(s, 1, Len(s) - 1))
         + (CHOOSE d \in 0..9 : Digits[d + 1] = s[Len(s)])

IsDecimalOf(s, n) ==
    /\ s # <<>>
    /\ \A i \in 1..Len(s) : \E d \in 0..9 : Digits[d + 1] = s[i]
    /\ (Len(s) > 1 => s[1] # "0")
    /\ DecimalValue(s) = n

\* C3: a token from CreateToken(userID, email), presented at once as
\* "Bearer <token>", passes VerifyToken, and ExtractTokenMetadata returns
\* claims with the decimal string of userID as subject, userID as user ID
\* and the email given.
C3_RoundTrip ==
    \A h \in held :
        now = h.at =>
            /\ VerifyToken(BearerOf(h.tok), JWT_SECRET, now) = NoError
            /\ LET m == ExtractTokenMetadata(BearerOf(h.tok), JWT_SECRET, now) IN
               /\ m.err = NoError
               /\ IsDecimalOf(m.claims.Subject, h.userID)
               /\ m.claims.UserID = h.userID
               /\ m.claims.Email = h.email
            /\ (Authorization = BearerOf(h.tok) /\ pc \in {"extract", "chain", "done"})
                  => verifyErr = NoError

C3_Witness ==
    /\ pc = "done"
    /\ handlerRan
    /\ \E h \in held :
          /\ now = h.at
          /\ Authorization = BearerOf(h.tok)
          /\ h.userID = 42
          /\ h.email = "a@b.com"
          /\ h.tok.claims.Subject = <<"4", "2">>

\* C4: a token issued at time t verifies at t and fails VerifyToken with
\* TokenExpired at every time from t + 24h on.
C4_Expires ==
    \A h \in held :
        /\ now = h.at =>
              VerifyToken(BearerOf(h.tok), JWT_SECRET, now) = NoError
        /\ now >= h.at + TokenExpirationTime =>
              VerifyToken(BearerOf(h.tok), JWT_SECRET, now) = ErrTokenExpired

C4_Witness ==
    /\ pc = "done"
    /\ verifyErr = ErrTokenExpired
    /\ status = 401
    /\ \E h \in held :
          /\ Authorization = BearerOf(h.tok)
          /\ now = h.at + TokenExpirationTime + Hour

\* C5: a token signed with another secret than the process secret never
\* passes VerifyToken, ExtractUserID or ExtractTokenMetadata: VerifyToken
\* fails with TokenInvalid, and no user_id is attached for it.
C5_ForeignSecret ==
    (pc # "idle" /\ CarriesToken /\ CarriedToken.sig.key # JWT_SECRET) =>
        /\ "ErrTokenInvalid" \in VerifyToken(Authorization, JWT_SECRET, now).is
        /\ ExtractUserID(Authorization, JWT_SECRET, now).err # NoError
        /\ ExtractTokenMetadata(Authorization, JWT_SECRET, now).err # NoError
        /\ "user_id" \notin DOMAIN Keys
        /\ ~handlerRan
        /\ (GatePassed => status = 401 /\ "ErrTokenInvalid" \in verifyErr.is)

C5_Witness ==
    /\ pc = "done"
    /\ CarriesToken
    /\ CarriedToken.wellFormed
    /\ CarriedToken.alg = "HS256"
    /\ CarriedToken.sig.key = OtherSecret
    /\ CarriedToken.claims.ExpiresAt > now
    /\ CarriedToken.claims.NotBefore <= now
    /\ status = 401

\* C6: a token whose header declares an algorithm outside the HMAC family
\* fails VerifyToken with an error that is InvalidSigningMethod and is not
\* the generic TokenInvalid.
C6_InvalidSigningMethodReported ==
    (GatePassed /\ CarriesToken /\ CarriedToken.wellFormed
                /\ CarriedToken.alg \notin HMACMethods) =>
        /\ "ErrInvalidSigningMethod" \in verifyErr.is
        /\ "ErrTokenInvalid" \notin verifyErr.is

\* the error the order algorithm, structure and signature, dates gives
FirstFailure(tok, t) ==
    IF tok.alg \notin HMACMethods THEN {"ErrInvalidSigningMethod"}
    ELSE IF ~CorrectlySigned(tok) THEN {"ErrTokenInvalid"}
    ELSE IF tok.claims.ExpiresAt # NoDate /\ t >= tok.claims.ExpiresAt
    THEN {"ErrTokenExpired"}
    ELSE IF tok.claims.NotBefore # NoDate /\ t < tok.claims.NotBefore
    THEN {"ErrTokenNotValidYet"}
    ELSE {}

\* C7: VerifyToken reports the error of the earliest failing check in the
\* order algorithm check, structure and signature, dates (wrong algorithm
\* and expired: InvalidSigningMethod; bad signature and expired:
\* TokenInvalid).
C7_EarliestCheckReported ==
    (pc = "verify" /\ CarriesToken /\ CarriedToken.wellFormed) =>
        VerifyToken(Authorization, JWT_SECRET, now).is = FirstFailure(CarriedToken, now)

Taxonomy ==
    {"ErrTokenMissing", "ErrTokenExpired", "ErrTokenNotValidYet",
     "ErrInvalidSigningMethod", "ErrTokenInvalid"}

\* C8: VerifyToken succeeds or returns exactly one member of the taxonomy:
\* TokenMissing exactly when ExtractToken yields the empty string,
\* TokenInvalid for a bad signature or a malformed token; a request that
\* got an error got no success, and the other way round.
C8_OneOfTaxonomy ==
    pc # "idle" =>
        LET e == VerifyToken(Authorization, JWT_SECRET, now) IN
        /\ e # NoError => (Cardinality(e.is) = 1 /\ e.is \subseteq Taxonomy /\ e.msg # "")
        /\ ("ErrTokenMissing" \in e.is) <=> (ExtractToken(Authorization) = <<>>)
        /\ (ExtractToken(Authorization) # <<>> /\ ~CarriesToken) => e.is = {"ErrTokenInvalid"}
        /\ (CarriesToken /\ ~CarriedToken.wellFormed) => e.is = {"ErrTokenInvalid"}
        /\ (CarriesToken /\ CarriedToken.wellFormed /\ CarriedToken.alg \in HMACMethods
               /\ ~CorrectlySigned(CarriedToken)) => e.is = {"ErrTokenInvalid"}
        /\ (pc \in {"extract", "chain", "done"}) =>
              /\ (verifyErr = NoError \/ (Cardinality(verifyErr.is) = 1 /\ verifyErr.is \subseteq Taxonomy))
              /\ (verifyErr # NoError) <=> (pc # "extract" /\ aborted /\ body = verifyErr.msg)
              /\ (verifyErr # NoError) => (setCount = 0 /\ ~handlerRan)

C8_Witness ==
    /\ pc = "done"
    /\ CarriesToken
    /\ ~CarriedToken.wellFormed
    /\ verifyErr.is = {"ErrTokenInvalid"}
    /\ status = 401

\* C9: a correctly signed, unexpired token whose not-before lies in the
\* future fails VerifyToken with TokenNotValidYet.
C9_NotValidYet ==
    (pc # "idle" /\ CarriesToken /\ CorrectlySigned(CarriedToken)
        /\ (CarriedToken.claims.ExpiresAt = NoDate \/ now < CarriedToken.claims.ExpiresAt)
        /\ CarriedToken.claims.NotBefore # NoDate
        /\ now < CarriedToken.claims.NotBefore) =>
        VerifyToken(Authorization, JWT_SECRET, now) = ErrTokenNotValidYet

C9_Witness ==
    /\ pc = "done"
    /\ CarriesToken
    /\ CorrectlySigned(CarriedToken)
    /\ now < CarriedToken.claims.ExpiresAt
    /\ now < CarriedToken.claims.NotBefore
    /\ verifyErr = ErrTokenNotValidYet
    /\ status = 401

StartsWithBearer(h) ==
    /\ Len(h) >= 7
    /\ \A i \in 1..7 : h[i] = Ch(<<"B", "e", "a", "r", "e", "r", " ">>[i])

\* r is s without its leading and trailing white space
IsTrimmed(r, s) ==
    \E a \in 0..Len(s), b \in 0..Len(s) :
        /\ a + b <= Len(s)
        /\ r = SubSeq(s, a + 1, Len(s) - b)
        /\ \A i \in 1..a : IsSpace(s[i])
        /\ \A i \in (Len(s) - b + 1)..Len(s) : IsSpace(s[i])
        /\ r # <<>> => (~IsSpace(r[1]) /\ ~IsSpace(r[Len(r)]))

\* C10: ExtractToken returns the remainder of the header, trimmed of white
\* space, when the header starts with "Bearer " (case-sensitive), and the
\* empty string for every other header value.
C10_ExtractToken ==
    /\ StartsWithBearer(Authorization) =>
          IsTrimmed(ExtractToken(Authorization), SubSeq(Authorization, 8, Len(Authorization)))
    /\ ~StartsWithBearer(Authorization) => ExtractToken(Authorization) = <<>>
    /\ ExtractToken(Bearer_ \o abc123) = abc123
    /\ ExtractToken(Str(<<"B", "a", "s", "i", "c", " ">>) \o abc123) = <<>>
    /\ ExtractToken(Str(<<"b", "e", "a", "r", "e", "r", " ">>) \o abc123) = <<>>
    /\ ExtractToken(Bearer_ \o Str(<<" ", "\t">>)) = <<>>
    /\ ExtractToken(<<>>) = <<>>

C10_Witness ==
    /\ pc = "done"
    /\ handlerRan
    /\ \E h \in held :
          Authorization = Bearer_ \o Str(<<" ", "\t">>) \o <<Blob(h.tok)>> \o Str(<<" ", "\t">>)

\* C11: ExtractUserID fails with TokenMissing when the request carries no
\* token, and for every other failing request with the same specific error
\* as VerifyToken (TokenExpired, TokenNotValidYet, ...).
C11_SameErrorAsVerify ==
    pc # "idle" =>
        LET v == VerifyToken(Authorization, JWT_SECRET, now)
            x == ExtractUserID(Authorization, JWT_SECRET, now).err
        IN  /\ ExtractToken(Authorization) = <<>> => x = ErrTokenMissing
            /\ v # NoError => x.is = v.is

Expired(tok, t) == tok.claims.ExpiresAt # NoDate /\ t >= tok.claims.ExpiresAt

\* C18: whenever VerifyToken succeeded for a request, ExtractUserID on the
\* same request succeeds too, also when the clock advances in between: the
\* answer "failed to extract user information" is never given.
C18_SecondParseNeverFails ==
    /\ pc = "extract" => ExtractUserID(Authorization, JWT_SECRET, now).err = NoError
    /\ body # "failed to extract user information"

\* C18 as amended: after a successful VerifyToken, ExtractUserID fails
\* exactly when the token's expiration was reached in the meantime; with
\* the clock standing still between the two parses it succeeds.
C18_SecondParseUnlessExpired ==
    /\ pc = "extract" =>
          /\ verifyErr = NoError
          /\ CarriesToken
          /\ (ExtractUserID(Authorization, JWT_SECRET, now).err # NoError)
                <=> Expired(CarriedToken, now)
          /\ now = verifiedAt => ExtractUserID(Authorization, JWT_SECRET, now).err = NoError
    /\ body = "failed to extract user information" =>
          /\ status = 401
          /\ aborted
          /\ ~handlerRan
          /\ verifyErr = NoError
          /\ verifiedAt < now
          /\ Expired(CarriedToken, now)
          /\ ~Expired(CarriedToken, verifiedAt)

C18_Witness ==
    /\ pc = "extract"
    /\ verifiedAt < now
    /\ ExtractUserID(Authorization, JWT_SECRET, now).err = NoError

\* the routes the service designates protected, and the public ones
IsPrefix(p, q) == Len(p) <= Len(q) /\ SubSeq(q, 1, Len(p)) = p
ProtectedPath(path) ==
    \/ IsPrefix(<<"api", "v1", "weddings">>, path)
    \/ path \in {<<"api", "v1", "user", "profile">>, <<"api", "v1", "user", "update">>,
                 <<"api", "v1", "user", "delete">>, <<"api", "v1", "user", "logout">>}
PublicPath(path) ==
    path \in {<<"api", "v1", "user", "register">>, <<"api", "v1", "user", "login">>,
              <<"api", "v1", "health", "status">>}
GateBeforeHandler(chain) ==
    \E i \in 1..(Len(chain) - 1) : chain[i] = "AuthMiddleware"

\* C12: every protected route runs the gate before its handler, so the
\* handler is reached only by a request whose token passed the gate; the
\* routes register, login and health/status have no gate in their chain;
\* every route is one or the other.
C12_ProtectedBehindGate ==
    /\ \A r \in Engine[ENV] :
          /\ ProtectedPath(r.path) \/ PublicPath(r.path)
          /\ ProtectedPath(r.path) => GateBeforeHandler(r.chain)
          /\ PublicPath(r.path) => \A i \in 1..Len(r.chain) : r.chain[i] # "AuthMiddleware"
    /\ \A q \in {<<"api", "v1", "user", "profile">>, <<"api", "v1", "user", "update">>,
                 <<"api", "v1", "user", "delete">>, <<"api", "v1", "user", "logout">>,
                 <<"api", "v1", "user", "register">>, <<"api", "v1", "user", "login">>,
                 <<"api", "v1", "health", "status">>, <<"api", "v1", "weddings">>,
                 <<"api", "v1", "weddings", ":id", "guests">>,
                 <<"api", "v1", "weddings", ":id", "fundraising", "summary">>} :
          \E r \in Engine[ENV] : r.path = q
    /\ (handlerRan /\ ProtectedPath(route.path)) =>
          /\ verifiedAt # NoDate
          /\ verifyErr = NoError
          /\ setCount = 1
          /\ "user_id" \in DOMAIN Keys
          /\ CarriesToken
          /\ handlerUserID = CarriedToken.claims.UserID
    /\ (pc = "done" /\ ProtectedPath(route.path) /\ VerifyToken(Authorization, JWT_SECRET, now) # NoError)
          => (~handlerRan /\ status = 401)
    /\ (pc = "done" /\ PublicPath(route.path)) => (handlerRan /\ verifiedAt = NoDate)

C12_Witness ==
    /\ pc = "done"
    /\ handlerRan
    /\ route.path = <<"api", "v1", "weddings", ":id", "guests", "batch">>
    /\ route.chain[Len(route.chain)] = "nil"
    /\ handlerUserID = 42

\* what the caller sees of a response
Visible(r) == [r EXCEPT !.req = NoReq]

LoginFailure ==
    [NoResp EXCEPT !.handler = "Login", !.status = 401,
                   !.error = "invalid email or password", !.delayed = timingAttackDelay]

\* C13: a well-formed login that does not succeed gets the same answer,
\* 401 with "invalid email or password" after the fixed delay, whether the
\* email is unknown or the password is wrong: any two failing logins
\* against the same table are answered alike.
C13_LoginFailuresAlike ==
    /\ \A r1, r2 \in LoginRequests :
          LET a == LoginResponse(users, r1, JWT_SECRET, now)
              b == LoginResponse(users, r2, JWT_SECRET, now)
          IN  (r1.bound /\ r2.bound /\ a.status # 200 /\ b.status # 200)
                 => (Visible(a) = Visible(b) /\ Visible(a) = LoginFailure)
    /\ (resp.handler = "Login" /\ resp.req.bound /\ resp.status # 200)
          => Visible(resp) = LoginFailure

C13_Witness ==
    /\ resp.handler = "Login"
    /\ resp.status = 401
    /\ ~resp.req.dbErr
    /\ FindByEmail(users, resp.req.email) # {}
    /\ FindByEmail(users, c_d_org) = {}

\* the request names a stored, not deleted user and that user's password
Authenticates(table, req) ==
    \E r \in table :
        ~r.Deleted /\ r.Email = req.email /\ CheckPassword(r.PasswordHash, req.password)

\* C14: a well-formed login whose lookup the database answers gets 200
\* exactly when its email is that of a stored, not deleted user and its
\* password matches the stored hash; the 200 carries a token that passes
\* the gate for that user, expires_in 86400 and the user's data; every
\* other well-formed login gets 401.
C14_LoginSucceedsExactly ==
    (resp.handler = "Login" /\ resp.req.bound) =>
        /\ resp.status \in {200, 401}
        /\ resp.status = 200 => Authenticates(users, resp.req)
        /\ (Authenticates(users, resp.req) /\ ~resp.req.dbErr) => resp.status = 200
        /\ resp.status = 200 =>
              \E tok \in resp.token, r \in Live(users) :
                  /\ resp.token = {tok}
                  /\ r.Email = resp.req.email
                  /\ VerifyToken(BearerOf(tok), JWT_SECRET, now) = NoError
                  /\ ExtractUserID(BearerOf(tok), JWT_SECRET, now)
                        = [userID |-> r.ID, err |-> NoError]
                  /\ resp.expires_in = 86400
                  /\ resp.expires_in * Second = TokenExpirationTime
                  /\ resp.user = userResponse(r)

C14_Witness ==
    /\ resp.handler = "Login"
    /\ resp.status = 200
    /\ \E r \in users : r.ID # resp.user.ID

\* C16: a token a login issued passes the gate at every time before its
\* expiration whatever has happened to its principal since, and a request
\* that carries it, the principal deleted or not, gets its handler run
\* with the principal's ID attached.
C16_NoRevocation ==
    /\ \A h \in held :
          ~Expired(h.tok, now) =>
              /\ VerifyToken(BearerOf(h.tok), JWT_SECRET, now) = NoError
              /\ ExtractUserID(BearerOf(h.tok), JWT_SECRET, now)
                    = [userID |-> h.userID, err |-> NoError]
    /\ (pc = "done" /\ CarriesToken /\ ~Expired(CarriedToken, now)) =>
          /\ handlerRan
          /\ status # 401
          /\ "user_id" \in DOMAIN Keys
          /\ Keys["user_id"] = CarriedToken.claims.UserID
          /\ handlerUserID = CarriedToken.claims.UserID

C16_Witness ==
    /\ pc = "done"
    /\ handlerRan
    /\ route.path = <<"api", "v1", "user", "profile">>
    /\ \E r \in users : r.ID = handlerUserID /\ r.Deleted
    /\ \E h \in held : h.at < now /\ Authorization = BearerOf(h.tok)

\* the response carries a signed token for the user it names
TokenFor(r) ==
    \E tok \in r.token :
        /\ r.token = {tok}
        /\ CorrectlySigned(tok)
        /\ tok.claims.UserID = r.user.ID
        /\ tok.claims.Email = r.user.Email

WellFormed(e) ==
    /\ Len(e) >= 1
    /\ Cardinality({i \in 1..Len(e) : "addr" \in DOMAIN e[i]}) = 1
    /\ ~IsSpace(e[1])
    /\ ~IsSpace(e[Len(e)])

C20_Stored ==
    /\ \A r1, r2 \in users : r1.Email = r2.Email => r1 = r2
    /\ \A r \in users : WellFormed(r.Email)

C20_Create ==
    \A u \in inflight :
        (inflight' = inflight \ {u} /\ \E r \in users : r.Email = u.Email)
            => (users' = users /\ resp'.status = 409)

C15_NoServingWithoutSecret ==
    /\ proc \in {"main", "serving"} => (JWT_SECRET # "" /\ JWT_SECRET = environ.JWT_SECRET)
    /\ (proc = "exited" /\ JWT_SECRET = "") =>
          (held = {} /\ \A w \in Workers : conc[w] = IdleWorker)
    /\ \A w \in Workers :
          conc[w].pc # "idle" =>
              (proc = "serving" /\ JWT_SECRET # "" /\ (conc[w].pc # "parse" => conc[w].key # ""))
    /\ \A h \in held :
          /\ JWT_SECRET # ""
          /\ h.tok.sig = Sign(h.tok.alg, SigningText(h.tok.alg, h.tok.claims), JWT_SECRET)

C15_Witness ==
    /\ proc = "exited"
    /\ environ.DATABASE_URL = DSN
    /\ environ.JWT_SECRET = ""
    /\ ENV = "development"

C19_Results ==
    \A w \in Workers :
        conc[w].pc = "done" =>
            /\ conc[w].err = VerifyToken(conc[w].header, JWT_SECRET, now)
            /\ (\E h \in held : conc[w].header = BearerOf(h.tok)) => conc[w].err = NoError

C19_Writes == JWT_SECRET' # JWT_SECRET => (proc = "loadenv" /\ conc = NoConc)

\* C19: the secret is written by LoadEnv at startup and by no step of a
\* request, and each of the verifications running at the same time ends
\* with the result it has when run alone: a valid token is accepted by
\* both, in every interleaving.
C19_ConcurrentVerifications == []C19_Results /\ [][C19_Writes]_vars

C19_Witness ==
    /\ conc[1].pc = "verify"
    /\ conc[2].pc = "done"
    /\ conc[2].err = NoError
    /\ conc[1].header = conc[2].header
    /\ \E h \in held : conc[1].header = BearerOf(h.tok)


\* every user waiting for its INSERT, and every stored row, carries a
\* bcrypt hash, the one of a submitted non-empty password
C21_Stored ==
    \A r \in users \cup inflight :
        /\ DOMAIN r.PasswordHash = {"bcrypt"}
        /\ \E u \in BoundUsers :
              /\ u.PasswordHash # <<>>
              /\ r.PasswordHash = EncryptPassword(u.PasswordHash)
              /\ CheckPassword(r.PasswordHash, u.PasswordHash)

\* the user RegisterUser hands to the INSERT carries the hash of the
\* password of its own request, the INSERT stores that hash, and a row
\* keeps its hash in every later step
C21_Steps ==
    /\ \A x \in inflight' \ inflight :
          \E u \in BoundUsers :
              /\ x.Email = TrimSpace(u.Email)
              /\ x.Name = TrimSpace(u.Name)
              /\ u.PasswordHash # <<>>
              /\ x.PasswordHash = EncryptPassword(u.PasswordHash)
    /\ \A r \in users' :
          IF \E o \in users : o.ID = r.ID
          THEN \A o \in users : o.ID = r.ID => r.PasswordHash = o.PasswordHash
          ELSE \E x \in inflight : x.Email = r.Email /\ x.PasswordHash = r.PasswordHash

C22_SamePasswordMatches ==
    /\ hasher.pc = "refused" => Len(hasher.p) > bcryptMaxLen
    /\ hasher.pc \in {"hashed", "checked", "answered"} => Len(hasher.p) <= bcryptMaxLen
    /\ (hasher.pc \in {"checked", "answered"} /\ hasher.q = hasher.p) => hasher.match
    /\ (hasher.pc = "answered" /\ hasher.q = hasher.p) => hasher.status = 200

\* C22: for every password p within the hasher's length limit,
\* CheckPassword(EncryptPassword(p), p) reports a match, and for q
\* different from p it reports a mismatch, which Login answers with 401.
C22_MatchExactlySamePassword ==
    /\ C22_SamePasswordMatches
    /\ (hasher.pc \in {"checked", "answered"} /\ hasher.q # hasher.p) => ~hasher.match
    /\ (hasher.pc = "answered" /\ hasher.q # hasher.p) => hasher.status = 401


\* C23 as stated: every token built by CreateToken has not-before <=
\* issued-at < expiration, issued-at and not-before equal to the issue
\* time, expiration exactly 24 hours after the issue time, the issuer
\* 'wedding_planner_service' and the decimal user ID as subject.
C23_ClaimsAtIssueTime ==
    \A h \in held :
        LET c == h.tok.claims
        IN  /\ c.NotBefore <= c.IssuedAt
            /\ c.IssuedAt < c.ExpiresAt
            /\ c.IssuedAt = h.at
            /\ c.NotBefore = h.at
            /\ c.ExpiresAt = h.at + TokenExpirationTime
            /\ c.Issuer = "wedding_planner_service"
            /\ c.Subject = Sprintf_d(h.userID)

\* C23, amended: issued-at and not-before are the issue time truncated to
\* the whole second, expiration is issued-at plus 24 hours (never more than
\* a second before the issue time plus 24 hours), not-before <= issued-at <
\* expiration, and issuer and subject are as stated.
C23_ClaimsAtIssueSecond ==
    \A h \in held :
        LET c == h.tok.claims
        IN  /\ c.NotBefore <= c.IssuedAt
            /\ c.IssuedAt < c.ExpiresAt
            /\ c.IssuedAt = NewNumericDate(h.at)
            /\ c.IssuedAt <= h.at /\ h.at < c.IssuedAt + Second
            /\ c.NotBefore = c.IssuedAt
            /\ c.ExpiresAt = c.IssuedAt + TokenExpirationTime
            /\ c.ExpiresAt = NewNumericDate(h.at + TokenExpirationTime)
            /\ c.Issuer = "wedding_planner_service"
            /\ c.Subject = Sprintf_d(h.userID)
            /\ c.UserID = h.userID

\* a token issued within a second, for user 42
C23_Witness ==
    \E h \in held :
        /\ h.at % Second # 0
        /\ h.userID = 42
        /\ h.tok.claims.Subject = <<"4", "2">>
        /\ h.tok.claims.ExpiresAt - h.tok.claims.IssuedAt = 24 * Hour


\* a wedding handler answers in this step
WeddingAnswered == wresp = AtRest /\ wresp' # AtRest

\* the live weddings with the ID of the request that the caller owns
OwnWedding(h) ==
    {r \in weddings : r.ID = h.id /\ r.UserID = h.caller /\ ~r.Deleted}

\* C24: GetWedding, UpdateWedding, DeleteWedding and GetCountdown read,
\* modify or delete a wedding only if its UserID is the authenticated
\* principal's ID; for a wedding of another user, or one that does not
\* exist, they answer 404 and leave every stored wedding unchanged; and
\* GetWeddings lists exactly the caller's weddings.
C24_Step ==
    WeddingAnswered =>
        LET h == wresp'
        IN  /\ h.handler \in {"GetWedding", "GetCountdown", "UpdateWedding",
                              "DeleteWedding"} =>
                  /\ h.status = 200 => OwnWedding(h) # {}
                  /\ \A r \in h.rows : r.UserID = h.caller /\ r.ID = h.id
                  /\ h.handler \in {"GetWedding", "GetCountdown"} =>
                        (h.rows \subseteq OwnWedding(h) /\ weddings' = weddings)
                  /\ (h.caller # NoUser /\ h.id # 0 /\ OwnWedding(h) = {}) =>
                        (h.status = 404 /\ h.rows = {} /\ weddings' = weddings)
                  /\ \A r \in weddings : r \notin OwnWedding(h) => r \in weddings'
                  /\ weddings' # weddings => OwnWedding(h) # {}
            /\ h.handler = "GetWeddings" =>
                  /\ weddings' = weddings
                  /\ \A r \in h.rows : r.UserID = h.caller
                  /\ h.status = 200 =>
                        h.rows = {r \in weddings : r.UserID = h.caller /\ ~r.Deleted}

C24_OwnWeddingsOnly == [][C24_Step]_vars

\* a user asked to update, and a user asked to delete, a live wedding of
\* another user and got 404; the owner listed it
C24_Witness ==
    /\ wresp # AtRest
    /\ wresp.handler \in {"UpdateWedding", "DeleteWedding"}
    /\ wresp.status = 404
    /\ wresp.caller = 42
    /\ \E r \in weddings : r.ID = wresp.id /\ r.UserID = 7 /\ ~r.Deleted
    /\ \E r \in weddings : r.UserID = 42 /\ ~r.Deleted


\* the fields an update request can carry
UpdateFields == {"VenueName", "VenueAddress", "EventDate", "EventTime", "MaxGuests"}

\* C25: CreateWedding stores the wedding with the UserID of the
\* authenticated principal whatever user_id the body carries; no operation
\* changes the UserID of a stored wedding; UpdateWedding leaves UserID, ID
\* and CurrentGuestCount as they are and changes only the fields present
\* in the request.
C25_Step ==
    /\ \A r \in weddings :
          \E n \in weddings' :
              /\ n.ID = r.ID
              /\ n.UserID = r.UserID
              /\ n.CurrentGuestCount = r.CurrentGuestCount
    /\ \A n, m \in weddings' : n.ID = m.ID => n = m
    /\ (WeddingAnswered /\ wresp'.handler = "CreateWedding") =>
          /\ weddings \subseteq weddings'
          /\ wresp'.status = 201 <=> weddings' # weddings
          /\ \A n \in weddings' \ weddings :
                /\ n.UserID = wresp'.caller
                /\ wresp'.caller # NoUser
                /\ wresp'.rows = {n}
    /\ (WeddingAnswered /\ wresp'.handler = "UpdateWedding") =>
          /\ wresp'.status # 200 => weddings' = weddings
          /\ wresp'.status = 200 =>
                \E o \in OwnWedding(wresp'), n \in weddings' :
                    /\ weddings' = (weddings \ {o}) \cup {n}
                    /\ wresp'.rows = {n}
                    /\ n.ID = o.ID /\ n.UserID = o.UserID /\ n.Deleted = o.Deleted
                    /\ n.CurrentGuestCount = o.CurrentGuestCount
                    /\ \A f \in UpdateFields :
                          IF f \in DOMAIN wresp'.data
                          THEN n[f] = (IF f \in {"EventDate", "MaxGuests"}
                                       THEN wresp'.data[f]
                                       ELSE TrimSpace(wresp'.data[f]))
                          ELSE n[f] = o[f]

GuestsOutOfBounds(w) ==
    w.MaxGuests < 0 \/ w.MaxGuests > 10000 \/ w.CurrentGuestCount > w.MaxGuests

\* every stored wedding has its guest numbers within bounds
C26_Stored == \A r \in weddings : ~GuestsOutOfBounds(r)

\* a create of an authenticated user, and an update of a wedding the
\* caller owns, that would store guest numbers out of bounds is answered
\* 400 and changes no stored wedding; the update is answered 404 when the
\* database fails the lookup of the wedding
C26_Step ==
    WeddingAnswered =>
        LET h == wresp'
        IN  /\ (/\ h.handler = "CreateWedding"
                /\ h.caller # NoUser
                /\ GuestsOutOfBounds(h.data)) =>
                   (h.status = 400 /\ weddings' = weddings)
            /\ (/\ h.handler = "UpdateWedding"
                /\ \E o \in OwnWedding(h) : GuestsOutOfBounds(Patch(o, h.data))) =>
                   /\ weddings' = weddings
                   /\ \/ h.status = 400
                      \/ /\ h.status = 404
                         /\ \E idStr \in IDParams, bound \in BOOLEAN :
                               UpdateWedding(h.caller, idStr, bound, h.data, "find")

\* C26: every wedding persisted through CreateWedding or UpdateWedding has
\* 0 <= MaxGuests <= 10000 and CurrentGuestCount <= MaxGuests; a create or
\* update that would violate this is answered 400 and leaves the stored
\* weddings unchanged.
C26_GuestBounds == []C26_Stored /\ [][C26_Step]_vars

\* an update that lowers MaxGuests below the guest count of the caller's
\* own wedding was answered 400
C26_Witness ==
    /\ wresp # AtRest
    /\ wresp.handler = "UpdateWedding"
    /\ wresp.status = 400
    /\ wresp.error = "current guest count cannot exceed max guests"
    /\ wresp.data = [MaxGuests |-> 5]
    /\ \E o \in OwnWedding(wresp) : o.CurrentGuestCount = 6 /\ o.MaxGuests \in {6, 7}


\* at most maxRetries attempts, only the last of them can have succeeded,
\* the pool and the ping follow a success, the error after the loop follows
\* maxRetries failures, and an empty DATABASE_URL means no attempt
C27_Attempts ==
    db # AtRest =>
        /\ Len(db.tries) <= maxRetries
        /\ \A k \in 1..(Len(db.tries) - 1) : ~db.tries[k]
        /\ db.pc \in {"pool", "ping"} => db.tries[Len(db.tries)]
        /\ db.DB # "nil" => (db.tries # <<>> /\ db.tries[Len(db.tries)])
        /\ (db.pc = "returned" /\ db.DB = "connected") => db.err = ""
        /\ (db.pc = "returned" /\ db.DB # "connected") => db.err # ""
        /\ (db.pc = "returned" /\ db.tries # <<>> /\ ~db.tries[Len(db.tries)]) =>
              (Len(db.tries) = maxRetries /\ db.DB = "nil")
        /\ db.dsn = <<>> => (db.tries = <<>> /\ db.DB = "nil")

\* an attempt is made only before the first success, before the fifth
\* failure, and never after the return
C27_Step ==
    db'.tries # db.tries =>
        /\ db.pc = "open"
        /\ Len(db.tries) < maxRetries
        /\ \A k \in 1..Len(db.tries) : ~db.tries[k]

\* C27: ConnectDB always terminates after at most 5 connection attempts:
\* it stops retrying at the first success and goes on to the pool
\* configuration and the ping, returns an error after 5 failed attempts
\* without a further one, and with an empty DATABASE_URL returns an error
\* with no attempt at all.
C27_TerminatesWithinFiveAttempts ==
    /\ []C27_Attempts
    /\ [][C27_Step]_vars
    /\ <>(db.pc = "returned")

\* ConnectDB has returned its error after five failed attempts
C27_Witness ==
    /\ db # AtRest
    /\ db.pc = "returned"
    /\ db.tries = <<FALSE, FALSE, FALSE, FALSE, FALSE>>
    /\ db.err = "falha ao conectar após 5 tentativas: dial error"

\* C28: ConnectDB retries with exponential backoff: each wait is the same
\* multiple, greater than one, of the wait before it.
C28_ExponentialBackoff ==
    db # AtRest =>
        \A k \in 2..Len(db.waits) :
            /\ db.waits[k] > db.waits[k - 1]
            /\ db.waits[k] * db.waits[1] = db.waits[2] * db.waits[k - 1]


\* the database is closed only after the HTTP server is down: after
\* srv.Shutdown returned nil, or after the srv.Close that follows its error
C29_ServerBeforeDatabase ==
    srv # AtRest =>
        /\ srv.pool # "open" => (srv.handled # "" /\ srv.httpDown /\ srv.conns = 0)
        /\ srv.pc = "closedb" => (srv.httpDown /\ srv.conns = 0)

\* C29: whenever a shutdown signal is handled, the shutdown of the HTTP
\* server (bounded by 30 seconds, with a forced close if it fails) is
\* complete before the database connections are closed, and the database
\* connections are closed before RunServer returns.
C29_GracefulShutdown ==
    /\ C29_ServerBeforeDatabase
    /\ (srv # AtRest /\ srv.pc = "returned" /\ srv.handled # "") =>
          srv.pool = "closed"


\* two finished updates of one user, one of the name only and one of the
\* partner name only, have both taken effect
C30_BothTakeEffect ==
    upd # AtRest =>
        \A v, w \in Workers :
            (/\ upd[v].pc = "done" /\ upd[v].status = 200
             /\ upd[w].pc = "done" /\ upd[w].status = 200
             /\ upd[v].userID = upd[w].userID
             /\ upd[v].updateData.Name # <<>>
             /\ upd[v].updateData.PartnerName = <<>>
             /\ upd[w].updateData.Name = <<>>
             /\ upd[w].updateData.PartnerName # <<>>) =>
                \E r \in users :
                    /\ r.ID = upd[v].userID
                    /\ r.Name = TrimSpace(upd[v].updateData.Name)
                    /\ r.PartnerName = TrimSpace(upd[w].updateData.PartnerName)

\* no step changes the email or the password hash of a stored user
C30_EmailAndHashKept ==
    \A r \in users :
        \E n \in users' :
            n.ID = r.ID /\ n.Email = r.Email /\ n.PasswordHash = r.PasswordHash

\* C30: two concurrent UpdateProfile requests of one principal, one
\* changing only the name and the other only the partner name, both take
\* effect in every interleaving, and UpdateProfile never changes the
\* stored email or password hash.
C30_ConcurrentUpdates == []C30_BothTakeEffect /\ [][C30_EmailAndHashKept]_vars

====
